---- MODULE Spec2Model ----
(***************************************************************************)
(* Citation enrichment pipeline of deepsci-agent.                          *)
(*                                                                         *)
(*   CitationCache      src/deepsci/sources/citation_cache.py              *)
(*   CitationClient     src/deepsci/sources/citation_client.py             *)
(*   ScholarClient      src/deepsci/sources/scholar_client.py              *)
(*   ArxivClient._enrich_with_citations                                    *)
(*                      src/deepsci/sources/arxiv_client.py                *)
(*                                                                         *)
(* The specifications share the definitions below:                         *)
(*   Spec        one batch enrichment: the thread pool runs fetch_citation *)
(*               for every paper of the batch and the main thread collects *)
(*               the results;                                              *)
(*   SpecRerun   Spec, and the returned batch is enriched a second time;   *)
(*   SpecPool    Spec for batches that fill the pool of five workers;      *)
(*   SpecCache   Spec with the steps of _save_cache taken apart;           *)
(*   SpecDamaged Spec over a damaged cache file, where lookups raise;      *)
(*   SpecFailing Spec against a primary provider that answers no request,  *)
(*               with the scheduling of the pool;                          *)
(*   SpecThrottled  Spec against a primary provider that throttles some    *)
(*               papers and does not know the others;                      *)
(*   SpecWait    one caller of CitationClient._wait_for_rate_limit;        *)
(*   SpecLimiter several workers calling it on the client they share;      *)
(*   SpecLookup  one CitationClient, built with any flags, called          *)
(*               sequentially by a single caller while the clock advances; *)
(*   SpecTimed   one CitationClient whose lookups take time: the sleeps of *)
(*               both rate limiters and of the retry backoff;              *)
(*   SpecStats   one CitationClient with its defaults, on which a single   *)
(*               caller calls the lookup, reset_stats and get_stats;       *)
(*   SpecStore   one CitationCache, built over any file content, whose     *)
(*               methods a single caller calls one after the other;        *)
(*   SpecNorm    the identifier clean-up of get_citations_by_arxiv_id as a *)
(*               pure function of its input string;                        *)
(*   SpecNormTwice  the clean-up applied to its own result;                *)
(*   SpecAnswering  Spec with the scheduling of the pool, against          *)
(*               providers that give any reply;                            *)
(*   SpecReport  batches of no paper up to five, with the note that        *)
(*               _enrich_with_citations prints before it returns.          *)
(*                                                                         *)
(* Strings that the code takes apart (paper identifiers) are sequences of  *)
(* one-character strings.  Time is counted in whole days.                  *)
(***************************************************************************)
EXTENDS Integers, Sequences, FiniteSets, TLC

VARIABLES
    batch,      \* the papers handed to _enrich_with_citations, in input order
    task,       \* task[i]: the fetch_citation call for batch[i] (its locals and position)
    stats,      \* CitationClient.stats
    mem,        \* CitationCache.cache, the in-memory dict
    file,       \* the content of the cache file on disk
    now,        \* datetime.now(), in days
    use_cache,              \* CitationClient.use_cache
    use_scholar_fallback,   \* CitationClient.use_scholar_fallback
    out,        \* the list built by list(executor.map(...))
    run,        \* which enrichment of the batch is running (1 or 2)
    hist,       \* what the previous enrichment of the batch did (observer)
    normIn,     \* SpecNorm: the string handed to the clean-up
    normOut,    \* SpecNorm: the cleaned string
    providers,  \* the replies the two remote providers may give (environment)
    clock,      \* time.time(), in ticks of half a second
    last_request_time,  \* CitationClient.last_request_time, in ticks
    raised,     \* _enrich_with_citations ended by raising
    scholar_last_request_time,  \* ScholarClient.last_request_time, in ticks
    console     \* what the running _enrich_with_citations has printed

vars == <<batch, task, stats, mem, file, now, use_cache, use_scholar_fallback,
          out, run, hist, normIn, normOut, providers, clock, last_request_time,
          raised, scholar_last_request_time, console>>

-----------------------------------------------------------------------------
(* Bounds of the model *)

\* largest batch handed to _enrich_with_citations in Spec
MaxPapers == 2
\* largest batch handed to _enrich_with_citations in SpecPool
PoolPapers == 6
\* largest batch that is enriched a second time in SpecRerun
MaxRerunPapers == 2
\* number of sequential calls of get_citations_by_arxiv_id in SpecLookup
MaxCalls == 1
\* largest retry_count a caller passes in SpecLookup
MaxRetry == 2
\* number of days the clock of SpecLookup advances
MaxTicks == 1
\* largest version number n of a suffix "v"+n handed to the clean-up
MaxVersion == 12
\* largest number of workers that share one rate limiter in SpecLimiter
MaxWaiters == 2
\* number of requests each caller of the rate limiter makes
MaxRequests == 2
\* number of ticks the clock of the rate limiter advances
MaxElapsed == 6
\* number of calls made on the CitationCache of SpecStore
MaxOps == 2
\* number of calls made on the CitationClient of SpecStats
MaxStatsCalls == 2
\* largest retry_count a caller passes in SpecTimed
MaxTimedRetry == 3

(* Program constants *)

\* ThreadPoolExecutor(max_workers=5)
max_workers == 5
\* CitationCache(cache_days=7)
cache_days == 7
\* retry_count=1 passed by fetch_citation
batch_retry_count == 1
\* CitationClient(delay_seconds=1.0), in ticks of half a second
delay_seconds == 2
\* ScholarClient(delay_seconds=2.0), in ticks
scholar_delay_seconds == 4
\* the factor 1 (second) of time.sleep(1 * (attempt + 1)), in ticks
OneSecond == 2

\* arxiv_client.py line 173: the success rate, in percent, below which the
\* note is printed
note_threshold == 80

-----------------------------------------------------------------------------
(* Identifier clean-up: citation_client.py line 104 *)

\* the literals of line 104
str_arxiv_lower == <<"a", "r", "x", "i", "v", ":">>
str_arXiv_mixed == <<"a", "r", "X", "i", "v", ":">>
str_v1 == <<"v", "1">>
str_v2 == <<"v", "2">>
str_v3 == <<"v", "3">>

RECURSIVE Replace(_, _)
\* Python's s.replace(old, ''): every non-overlapping occurrence of old,
\* found scanning left to right, is removed.
Replace(s, old) ==
    IF Len(s) < Len(old) THEN s
    ELSE IF SubSeq(s, 1, Len(old)) = old
         THEN Replace(SubSeq(s, Len(old) + 1, Len(s)), old)
         ELSE <<Head(s)>> \o Replace(Tail(s), old)

\* arxiv_id.replace('arxiv:', '').replace('arXiv:', '').replace('v1', '')
\*         .replace('v2', '').replace('v3', '')
CleanArxivId(s) ==
    Replace(Replace(Replace(Replace(Replace(s, str_arxiv_lower),
        str_arXiv_mixed), str_v1), str_v2), str_v3)

-----------------------------------------------------------------------------
(* Data *)

\* Python's None, for a lookup result or a cache.get result
None == [none |-> TRUE]

\* the stand-in for a null numeric field of a provider response
Null == -1

\* Python's `x or 0` on a numeric field
OrZero(x) == IF x = Null \/ x = 0 THEN 0 ELSE x

DigitChar(d) == <<"0", "1", "2", "3", "4", "5", "6", "7", "8", "9">>[d + 1]

\* str(n) for 0 <= n < 100
Decimal(n) ==
    IF n < 10 THEN <<DigitChar(n)>> ELSE <<DigitChar(n \div 10), DigitChar(n % 10)>>

\* the i-th paper of a batch, as ArxivClient.search builds it: the id is the
\* last path segment of the entry URL (identifier plus version suffix), the
\* citation fields have their dataclass defaults
Paper(i) ==
    [id |-> Decimal(i) \o <<"v">> \o Decimal(((i - 1) % 3) + 1),
     title |-> "title",
     citation_count |-> 0,
     influential_citations |-> 0]

\* what sch.get_paper can come back with: a paper (numeric fields possibly
\* null), nothing, or an exception
PrimaryPapers ==
    {[citationCount |-> 5, influentialCitationCount |-> 2, referenceCount |-> 3],
     [citationCount |-> Null, influentialCitationCount |-> Null, referenceCount |-> Null]}

\* what scholar_client.enrich_paper_with_scholar can come back with: None
\* (no publication, or an exception inside it) or a dict whose citation_count
\* is num_citations, 0 when the publication has none
ScholarCounts == {0, 12}
ScholarReplies == {None} \cup {[citation_count |-> c] : c \in ScholarCounts}

\* nothing printed: _enrich_with_citations has not reached line 169
NoConsole == [done |-> FALSE, printed |-> <<>>]

\* the providers may give any reply, at every call
AnyReply == [primary |-> {"not found", "exception", "paper"},
             scholar |-> ScholarReplies]

\* the primary provider knows none of the papers, the fallback knows them all
PrimaryKnowsNone == [primary |-> {"not found"},
                     scholar |-> {[citation_count |-> 12]}]

NewStats ==
    [semantic_scholar_success |-> 0,
     semantic_scholar_fail |-> 0,
     scholar_fallback_used |-> 0,
     cache_hits |-> 0,
     total_attempts |-> 0]

\* the locals of one fetch_citation / get_citations_by_arxiv_id call
NewTask(paper, retry_count) ==
    [pc |-> "queued",
     paper |-> paper,           \* the Paper object (mutated in place)
     arxiv_id |-> paper.id,     \* the arxiv_id local (cleaned at line 104)
     retry_count |-> retry_count,
     attempt |-> 0,             \* the loop variable of line 114
     tmp |-> 0,                 \* the counter value loaded by a `+= 1`
     resp |-> None,             \* the paper / the dict a provider returned
     buf |-> <<>>,              \* the text json.dump wrote, not yet flushed to the file
     metrics |-> None,          \* what get_citations_by_arxiv_id returned
     path |-> "none",           \* which return statement was taken
     cache_get |-> "no",        \* what cache.get found: "absent", "expired", "hit" (observer)
     waits |-> 0,               \* _wait_for_rate_limit calls made (observer)
     primary_calls |-> 0,       \* sch.get_paper requests sent (observer)
     found |-> 0,               \* sch.get_paper calls that returned a paper (observer)
     scholar_calls |-> 0,       \* Scholar queries sent (observer)
     cache_sets |-> 0,          \* cache.set calls that returned (observer)
     set_raised |-> 0,          \* cache.set calls of the running lookup that
                                \* raised (observer)
     wake |-> 0,                \* when the time.sleep the call is in ends, in ticks
     reply |-> "none",          \* how the last primary attempt ended (observer)
     backoff |-> 0]             \* the seconds line 154 slept after it (observer)

Tasks == DOMAIN task

Running == {i \in Tasks : task[i].pc \notin {"queued", "done", "failed"}}

\* provider calls in flight
InFlight == {i \in Tasks : task[i].pc \in {"get_paper", "scholar"}}

-----------------------------------------------------------------------------
(* CitationCache *)

\* an entry that is evicted as soon as its age reaches the TTL
ExpiredAtTTL(entry, t) == t - entry.cached_at >= cache_days

\* citation_cache.py line 63
Expired(entry, t) == t - entry.cached_at > cache_days

Remove(m, k) == [x \in DOMAIN m \ {k} |-> m[x]]

Put(m, k, e) == [x \in DOMAIN m \cup {k} |-> IF x = k THEN e ELSE m[x]]

\* self.cache is a dict of entries, read from the file by _load_cache; the
\* file may be missing or hold something else, and the length of its text is
\* counted in entries

\* a text that json.load does not parse, n entries long, is kept under a key
\* that no identifier is cleaned to
NotJson == <<"not json">>

Unparseable(n) == [k \in {NotJson} |-> n]

TextLength(f) ==
    IF NotJson \in DOMAIN f THEN f[NotJson] ELSE Cardinality(DOMAIN f)

\* citation_cache.py line 41: open(..., 'w') truncates the file
Truncated == Unparseable(0)

\* the end of the `with` block of line 41: the buffered text overwrites the
\* start of the file; what a longer text written meanwhile has beyond it stays
Flush(f, buf) ==
    IF TextLength(f) > TextLength(buf) THEN Unparseable(TextLength(f)) ELSE buf

\* there is no cache file
NoFile == [k \in {<<"no file">>} |-> 0]

\* the file holds JSON that is not an object (a list); json.load returns it
\* and it becomes self.cache
NotObject == [k \in {<<"not an object">>} |-> 0]

Malformed(entry) == "cached_at" \notin DOMAIN entry

\* _load_cache, lines 27-36
LoadCache(f) ==
    IF f = NoFile THEN <<>>
    ELSE IF NotJson \in DOMAIN f THEN <<>>
    ELSE f

\* CitationCache.get: the value returned
CacheGetValue(m, k, t) ==
    IF k \notin DOMAIN m THEN None
    ELSE IF Expired(m[k], t) THEN None
    ELSE m[k].data

\* CitationCache.get: which of its three return statements is taken
CacheGetOutcome(m, k, t) ==
    IF k \notin DOMAIN m THEN "absent"
    ELSE IF Expired(m[k], t) THEN "expired"
    ELSE "hit"

\* a get that deletes the entry it returns
GetPops(m, k, t) == Remove(m, k)

\* CitationCache.get: the dict afterwards (a stale entry is deleted)
CacheGetMem(m, k, t) ==
    IF k \in DOMAIN m /\ Expired(m[k], t) THEN Remove(m, k) ELSE m

\* CitationCache.get: the file afterwards (_save_cache after a deletion)
CacheGetFile(m, f, k, t) ==
    IF k \in DOMAIN m /\ Expired(m[k], t) THEN Remove(m, k) ELSE f

\* a set that stores some other record than the one it is handed
SetStoresOther(m, k, data, t) ==
    Put(m, k, [data |-> [data EXCEPT !.citation_count = @ + 1], cached_at |-> t])

\* CitationCache.set: the dict afterwards; _save_cache then dumps it
CacheSetMem(m, k, data, t) == Put(m, k, [data |-> data, cached_at |-> t])

-----------------------------------------------------------------------------
(* CitationClient.get_citations_by_arxiv_id, called by fetch_citation.     *)
(* One action runs from one load of a stats counter (exclusive) to the     *)
(* next load of a stats counter or the next remote request (inclusive):    *)
(* `self.stats[k] += 1` is a load, an add and a store, and nothing in      *)
(* CitationClient orders the load and the store of one worker against      *)
(* those of another.                                                       *)

\* a dict result is truthy, None is not (`if cached:`, `if metrics:`)
Truthy(m) == m # None

\* a fetch_citation that zeroes the counts of a paper it got nothing for
ZeroWhenMissing(paper, m) ==
    [paper EXCEPT !.citation_count = IF Truthy(m) THEN m.citation_count ELSE 0,
                  !.influential_citations =
                      IF Truthy(m) THEN m.influential_citations ELSE 0]

\* a fetch_citation that also stores the cleaned identifier in the paper
StoresCleanId(paper, m) ==
    IF Truthy(m)
    THEN [paper EXCEPT !.id = CleanArxivId(paper.id),
                       !.citation_count = m.citation_count,
                       !.influential_citations = m.influential_citations]
    ELSE paper

\* fetch_citation, lines 157-159 of arxiv_client.py
ApplyMetrics(paper, m) ==
    IF Truthy(m)
    THEN [paper EXCEPT !.citation_count = m.citation_count,
                       !.influential_citations = m.influential_citations]
    ELSE paper

\* a return statement of get_citations_by_arxiv_id, and fetch_citation's use
\* of the value it returns
Return(t, m, path) ==
    [t EXCEPT !.pc = "done", !.metrics = m, !.path = path,
              !.paper = ApplyMetrics(t.paper, m),
              !.attempt = 0, !.tmp = 0, !.buf = <<>>, !.set_raised = 0]

\* a fetch_citation that lets the exception of its lookup through: the call
\* ends with the exception in its future
NotCaught(t) ==
    [t EXCEPT !.pc = "failed", !.path = "raised", !.attempt = 0, !.tmp = 0,
              !.buf = <<>>, !.set_raised = 0]

\* get_citations_by_arxiv_id raises: lines 160-163 of arxiv_client.py drop
\* the exception and fetch_citation returns the paper as it is
Caught(t) == Return(t, None, "raised")

\* cache.get at line 108 raises (line 62 of citation_cache.py)
GetRaises(key) ==
    use_cache /\ mem # NotObject /\ key \in DOMAIN mem /\ Malformed(mem[key])

\* cache.set at line 147 or 167 raises (line 78 of citation_cache.py)
SetRaises == use_cache /\ mem = NotObject

\* line 147 or 167: cache.set is called and raises
SetRaised(t) == [t EXCEPT !.set_raised = t.set_raised + 1]

\* the cache.set calls a lookup has made
SetCalls(t) == t.cache_sets + t.set_raised

\* `self.stats['cache_hits'] += 1` at line 110 raises KeyError: reset_stats
\* has rebuilt the dict without that key
HitCountRaises == "cache_hits" \notin DOMAIN stats

\* lines 116-119: _wait_for_rate_limit, then the request of sch.get_paper
SendPrimary(t) ==
    [t EXCEPT !.pc = "get_paper", !.waits = t.waits + 1,
              !.primary_calls = t.primary_calls + 1]

\* a loop that makes one attempt more
OneAttemptMore(t) == t.attempt <= t.retry_count

\* a loop that goes on as long as its attempts fail
RetriesForever(t) == TRUE

\* line 114: range(retry_count + 1) has a next value
MoreAttempts(t) == t.attempt < t.retry_count

\* `continue` at line 131 or 155: the next attempt of range(retry_count + 1),
\* or the end of the loop and the load of line 158
AfterFailedAttempt(t) ==
    IF MoreAttempts(t)
    THEN SendPrimary([t EXCEPT !.attempt = t.attempt + 1, !.resp = None])
    ELSE [t EXCEPT !.pc = "fail", !.resp = None,
                   !.tmp = stats.semantic_scholar_fail]

\* lines 135-143: the dict has the keys citation_count,
\* influential_citations, reference_count, year, fields, venue and
\* s2_fields; the model keeps the three counts
BuildResult(paper) ==
    [citation_count |-> OrZero(paper.citationCount),
     influential_citations |-> OrZero(paper.influentialCitationCount),
     reference_count |-> OrZero(paper.referenceCount)]

\* a fallback gate that does not look at the client's flag
FallbackWithoutFlag(paper_title) == paper_title # ""

\* a fallback gate that does not look at the title
FallbackWithoutTitle(paper_title) == use_scholar_fallback

\* line 161
TryFallback(paper_title) == paper_title # "" /\ use_scholar_fallback

\* a fallback that accepts any dict, whatever its count
AcceptAnyCount(data) == data # None

\* line 73 of citation_client.py
AcceptScholar(data) == data # None /\ data.citation_count > 0

\* a fallback record that takes every count from Scholar's citation count
EveryCountFromScholar(data) ==
    [citation_count |-> data.citation_count,
     influential_citations |-> data.citation_count,
     reference_count |-> data.citation_count]

\* lines 75-83: the dict has the same seven keys as that of lines 135-143
ScholarResult(data) ==
    [citation_count |-> data.citation_count,
     influential_citations |-> 0,
     reference_count |-> 0]

\* a lookup that counts itself twice
EnteredCountingTwice(t) ==
    [t EXCEPT !.pc = "total_attempts", !.tmp = stats.total_attempts + 1]

\* line 101, the load of `self.stats['total_attempts'] += 1`
Entered(t) == [t EXCEPT !.pc = "total_attempts", !.tmp = stats.total_attempts]

Enter(i) ==
    /\ task[i].pc = "queued"
    /\ task' = [task EXCEPT ![i] = Entered(task[i])]
    /\ UNCHANGED <<batch, stats, mem, file, now, use_cache,
                   use_scholar_fallback, out, run, hist, normIn, normOut, providers,
                       clock, last_request_time, raised,
                   scholar_last_request_time, console>>

\* line 101 (the store), line 104, lines 107-111 up to the load of cache_hits
\* (which raises when the key is gone), or lines 114-119 up to the first
\* request
AfterTotal(i) ==
    LET t == task[i]
        key == CleanArxivId(t.arxiv_id)
        cached == IF use_cache THEN CacheGetValue(mem, key, now) ELSE None
        t1 == [t EXCEPT !.arxiv_id = key,
                        !.cache_get = IF use_cache
                                      THEN CacheGetOutcome(mem, key, now) ELSE "no"]
    IN  /\ t.pc = "total_attempts"
        /\ stats' = [stats EXCEPT !.total_attempts = t.tmp + 1]
        /\ IF GetRaises(key)
           THEN /\ task' = [task EXCEPT ![i] =
                       Caught([t EXCEPT !.arxiv_id = key, !.cache_get = "raised"])]
                /\ UNCHANGED <<mem, file>>
           ELSE /\ mem' = IF use_cache THEN CacheGetMem(mem, key, now) ELSE mem
                /\ file' = IF use_cache
                           THEN CacheGetFile(mem, file, key, now) ELSE file
                /\ task' = [task EXCEPT ![i] =
                       IF Truthy(cached)
                       THEN IF HitCountRaises
                            THEN Caught(t1)
                            ELSE [t1 EXCEPT !.pc = "cache_hits", !.metrics = cached,
                                            !.tmp = stats.cache_hits]
                       ELSE SendPrimary(t1)]
        /\ UNCHANGED <<batch, now, use_cache, use_scholar_fallback, out, run,
                       hist, normIn, normOut, providers, clock, last_request_time, raised,
                   scholar_last_request_time, console>>

\* line 110 (the store) and line 111
CacheHit(i) ==
    LET t == task[i]
    IN  /\ t.pc = "cache_hits"
        /\ stats' = [stats EXCEPT !.cache_hits = t.tmp + 1]
        /\ task' = [task EXCEPT ![i] = Return(t, t.metrics, "cache")]
        /\ UNCHANGED <<batch, mem, file, now, use_cache, use_scholar_fallback,
                       out, run, hist, normIn, normOut, providers,
                           clock, last_request_time, raised,
                   scholar_last_request_time, console>>

\* what the primary provider may answer to the requests for the i-th paper:
\* the same for every paper, or given paper by paper
PrimaryKinds(i) ==
    IF "per_paper" \in DOMAIN providers
    THEN providers.per_paper[i] ELSE providers.primary

\* the answers after which sch.get_paper gives no paper: it returns nothing
\* (line 129) or raises (line 151); a rate-limit answer (HTTP 429) is one
\* of the exceptions
NoPaperKinds == {"not found", "exception", "rate limited"}

\* line 119 returns or raises: lines 129-131, 151-155, or the load of line 133
PrimaryReply(i) ==
    LET t == task[i]
    IN  /\ t.pc = "get_paper"
        /\ \/ \E kind \in PrimaryKinds(i) \cap NoPaperKinds :
                task' = [task EXCEPT ![i] = AfterFailedAttempt(t)]
           \/ \E paper \in {x \in PrimaryPapers : "paper" \in PrimaryKinds(i)} :
                task' = [task EXCEPT ![i] =
                    [t EXCEPT !.pc = "success", !.resp = paper,
                              !.found = t.found + 1,
                              !.tmp = stats.semantic_scholar_success]]
        /\ UNCHANGED <<batch, stats, mem, file, now, use_cache,
                       use_scholar_fallback, out, run, hist, normIn, normOut, providers,
                           clock, last_request_time, raised,
                   scholar_last_request_time, console>>

\* line 133 (the store), then lines 135-149: the result is built, cached
\* and returned; or building it from the provider's object (lines 141-142)
\* raises; or cache.set is called and raises, on a cache that is not a dict.
\* Both exceptions land in line 151.
PrimarySuccess(i) ==
    LET t == task[i]
        result == BuildResult(t.resp)
    IN  /\ t.pc = "success"
        /\ stats' = [stats EXCEPT !.semantic_scholar_success = t.tmp + 1]
        /\ \/ /\ ~SetRaises
              /\ mem' = IF use_cache
                        THEN CacheSetMem(mem, t.arxiv_id, result, now) ELSE mem
              /\ file' = IF use_cache THEN mem' ELSE file
              /\ task' = [task EXCEPT ![i] =
                    Return([t EXCEPT !.cache_sets =
                                IF use_cache THEN t.cache_sets + 1 ELSE t.cache_sets],
                           result, "primary")]
           \/ /\ task' = [task EXCEPT ![i] = AfterFailedAttempt(t)]
              /\ UNCHANGED <<mem, file>>
           \/ /\ SetRaises
              /\ task' = [task EXCEPT ![i] = AfterFailedAttempt(SetRaised(t))]
              /\ UNCHANGED <<mem, file>>
        /\ UNCHANGED <<batch, now, use_cache, use_scholar_fallback, out, run,
                       hist, normIn, normOut, providers, clock, last_request_time, raised,
                   scholar_last_request_time, console>>

\* a lookup that remembers in the dict that it found nothing
NegativeEntry(m, k, t) ==
    IF use_cache /\ m # NotObject
    THEN Put(m, k, [data |-> None, cached_at |-> t]) ELSE m

\* line 171: `return None` leaves self.cache as it is
AfterNoRecord(m, k, t) == m

\* line 158 (the store), lines 161-163 and the request of line 72, or line 171
PrimaryFail(i) ==
    LET t == task[i]
    IN  /\ t.pc = "fail"
        /\ stats' = [stats EXCEPT !.semantic_scholar_fail = t.tmp + 1]
        /\ task' = [task EXCEPT ![i] =
                IF TryFallback(t.paper.title)
                THEN [t EXCEPT !.pc = "scholar",
                               !.scholar_calls = t.scholar_calls + 1]
                ELSE Return(t, None, "none")]
        /\ mem' = IF TryFallback(t.paper.title)
                  THEN mem ELSE AfterNoRecord(mem, t.arxiv_id, now)
        /\ UNCHANGED <<batch, file, now, use_cache, use_scholar_fallback,
                       out, run, hist, normIn, normOut, providers,
                           clock, last_request_time, raised,
                   scholar_last_request_time, console>>

\* line 72 returns: line 73, then the load of line 74, or line 84 and line 169
ScholarReply(i) ==
    LET t == task[i]
    IN  /\ t.pc = "scholar"
        /\ \E data \in providers.scholar :
              task' = [task EXCEPT ![i] =
                  IF AcceptScholar(data)
                  THEN [t EXCEPT !.pc = "fallback_used", !.resp = data,
                                 !.tmp = stats.scholar_fallback_used]
                  ELSE Return([t EXCEPT !.resp = data], None, "none")]
        /\ UNCHANGED <<batch, stats, mem, file, now, use_cache,
                       use_scholar_fallback, out, run, hist, normIn, normOut, providers,
                           clock, last_request_time, raised,
                   scholar_last_request_time, console>>

\* line 74 (the store), lines 75-83, lines 166-169; cache.set at line 167
\* is outside every try of get_citations_by_arxiv_id
FallbackAccepted(i) ==
    LET t == task[i]
        result == ScholarResult(t.resp)
    IN  /\ t.pc = "fallback_used"
        /\ stats' = [stats EXCEPT !.scholar_fallback_used = t.tmp + 1]
        /\ IF SetRaises
           THEN /\ task' = [task EXCEPT ![i] = Caught(SetRaised(t))]
                /\ UNCHANGED <<mem, file>>
           ELSE /\ mem' = IF use_cache
                          THEN CacheSetMem(mem, t.arxiv_id, result, now) ELSE mem
                /\ file' = IF use_cache THEN mem' ELSE file
                /\ task' = [task EXCEPT ![i] =
                        Return([t EXCEPT !.cache_sets =
                                    IF use_cache THEN t.cache_sets + 1
                                    ELSE t.cache_sets],
                               result, "fallback")]
        /\ UNCHANGED <<batch, now, use_cache, use_scholar_fallback, out, run,
                       hist, normIn, normOut, providers, clock, last_request_time, raised,
                   scholar_last_request_time, console>>

-----------------------------------------------------------------------------
(* ArxivClient._enrich_with_citations *)

\* the entry an earlier enrichment left in the cache file for a paper
OldData == [citation_count |-> 7, influential_citations |-> 1, reference_count |-> 4]

\* an entry without 'cached_at'
MalformedEntry == [data |-> OldData]

\* the day of the batch, and the days at which old entries were written
BatchDay == cache_days + 1
OldDays == {BatchDay}

\* the cache files in which any of the given keys may have an entry, written
\* on one of the given days
FilesWritten(keys, days) ==
    UNION {[S -> {[data |-> OldData, cached_at |-> d] : d \in days}] :
           S \in SUBSET keys}

\* the cache files an enrichment can find: any of the batch's papers may have
\* an entry
InitialFiles(keys) == FilesWritten(keys, OldDays)

\* a pool that starts no further call once a call has come back without a
\* record
StopsAfterFailure ==
    /\ Cardinality(Running) < max_workers
    /\ \A j \in Tasks : task[j].pc = "done" => Truthy(task[j].metrics)

\* a pool that starts a thread for every submitted call
UnboundedPool == TRUE

\* ThreadPoolExecutor(max_workers=5): a call leaves the work queue when one of
\* the at most max_workers threads is idle
IdleWorker == Cardinality(Running) < max_workers

\* the work queue is first in, first out
FirstQueued(i) == \A j \in Tasks : task[j].pc = "queued" => i <= j

\* a worker thread takes fetch_citation(papers[i]) from the queue and runs it
\* up to line 101 of citation_client.py
StartWorker(i) ==
    /\ FirstQueued(i)
    /\ IdleWorker
    /\ Enter(i)

\* the next step of the worker that runs fetch_citation(papers[i])
WorkerStep(i) ==
    \/ AfterTotal(i)
    \/ CacheHit(i)
    \/ PrimaryReply(i)
    \/ PrimarySuccess(i)
    \/ PrimaryFail(i)
    \/ ScholarReply(i)
    \/ FallbackAccepted(i)

\* a result iterator that yields the futures last submitted first
LastSubmittedFirst(j) == Len(batch) + 1 - j

\* executor.map's result iterator yields the futures in the order of
\* submission: the j-th result is that of the j-th call
FutureAt(j) == j

\* a rate that leaves the cache hits out of the attempts
RateOfMisses(st) ==
    st.semantic_scholar_success * 100
        < note_threshold * (st.total_attempts - st.cache_hits)

\* lines 170-173: success / total * 100 < 80, for total > 0; the quotient
\* of the two counters is compared exactly
LowRate(st) ==
    st.semantic_scholar_success * 100 < note_threshold * st.total_attempts

\* line 169, and line 173 under it
NoteDue(papers, st) ==
    papers # <<>> /\ st.total_attempts > 0 /\ LowRate(st)

\* lines 174-177: the line printed, from the three counters it shows
NoteLine(st) ==
    [success |-> st.semantic_scholar_success, total |-> st.total_attempts,
     from_scholar |-> st.scholar_fallback_used]

\* lines 169-178: what _enrich_with_citations has printed when it returns
Reported(papers, st) ==
    [done |-> TRUE,
     printed |-> IF NoteDue(papers, st) THEN <<NoteLine(st)>> ELSE <<>>]

\* list(executor.map(fetch_citation, papers)): every result is waited for and
\* the list is built; the results no longer change once their calls are
\* done.  A call that ended with an exception makes the iteration, and with
\* it _enrich_with_citations, raise.  Lines 169-180 follow at once.
Collect ==
    /\ Len(out) < Len(batch)
    /\ ~raised
    /\ \A i \in Tasks : task[i].pc \in {"done", "failed"}
    /\ IF \E i \in Tasks : task[i].pc = "failed"
       THEN raised' = TRUE /\ out' = out
       ELSE /\ out' = [j \in 1..Len(batch) |-> task[FutureAt(j)].paper]
            /\ raised' = raised
    /\ console' = IF raised' THEN console ELSE Reported(out', stats)
    /\ UNCHANGED <<batch, task, stats, mem, file, now, use_cache,
                   use_scholar_fallback, run, hist, normIn, normOut, providers,
                   clock, last_request_time,
                   scholar_last_request_time>>

BatchReturned == Len(out) = Len(batch)

\* _enrich_with_citations is called again with the list it returned: a new
\* CitationClient (new stats, the cache loaded from the file), any time later
EnrichAgain ==
    /\ run = 1
    /\ BatchReturned
    /\ Len(batch) <= MaxRerunPapers
    /\ run' = 2
    /\ hist' = [enriched |-> {i \in Tasks : Truthy(task[i].metrics)}]
    /\ batch' = out
    /\ task' = [i \in Tasks |-> NewTask(out[i], batch_retry_count)]
    /\ stats' = NewStats
    /\ mem' = file
    /\ out' = <<>>
    /\ \E d \in {0, cache_days + 1} : now' = now + d
    /\ console' = NoConsole
    /\ UNCHANGED <<file, use_cache, use_scholar_fallback, normIn, normOut, providers,
        clock, last_request_time, raised,
                   scholar_last_request_time>>

NoHist == [enriched |-> {}]

\* the state in which _enrich_with_citations(papers) starts its pool, for a
\* batch of one of the given sizes: CitationClient() at line 146 has its
\* defaults, its cache is loaded from the file
PoolStarts ==
    /\ task = [i \in 1..Len(batch) |-> NewTask(batch[i], batch_retry_count)]
    /\ stats = NewStats
    /\ now = BatchDay
    /\ use_cache = TRUE
    /\ use_scholar_fallback = TRUE
    /\ out = <<>>
    /\ run = 1
    /\ hist = NoHist
    /\ normIn = <<>>
    /\ normOut = [done |-> FALSE, value |-> <<>>]
    /\ clock = 0
    /\ last_request_time = 0
    /\ scholar_last_request_time = 0
    /\ console = NoConsole
    /\ raised = FALSE

\* the same over a cache file that earlier enrichments wrote, on the given days
InitBatchOver(sizes, days) ==
    /\ \E n \in sizes : batch = [i \in 1..n |-> Paper(i)]
    /\ file \in FilesWritten({CleanArxivId(batch[i].id) : i \in 1..Len(batch)}, days)
    /\ mem = file
    /\ PoolStarts

InitBatch(sizes) == InitBatchOver(sizes, OldDays)

Init == InitBatch(1..MaxPapers) /\ providers = AnyReply

Next ==
    \/ \E i \in Tasks : StartWorker(i)
    \/ \E i \in Tasks : AfterTotal(i)
    \/ \E i \in Tasks : CacheHit(i)
    \/ \E i \in Tasks : PrimaryReply(i)
    \/ \E i \in Tasks : PrimarySuccess(i)
    \/ \E i \in Tasks : PrimaryFail(i)
    \/ \E i \in Tasks : ScholarReply(i)
    \/ \E i \in Tasks : FallbackAccepted(i)
    \/ Collect

Spec == Init /\ [][Next]_vars

\* SpecRerun is Spec with a second enrichment of the returned batch
NextRerun ==
    \/ \E i \in Tasks : StartWorker(i)
    \/ \E i \in Tasks : AfterTotal(i)
    \/ \E i \in Tasks : CacheHit(i)
    \/ \E i \in Tasks : PrimaryReply(i)
    \/ \E i \in Tasks : PrimarySuccess(i)
    \/ \E i \in Tasks : PrimaryFail(i)
    \/ \E i \in Tasks : ScholarReply(i)
    \/ \E i \in Tasks : FallbackAccepted(i)
    \/ Collect
    \/ EnrichAgain

SpecRerun == Init /\ [][NextRerun]_vars

-----------------------------------------------------------------------------
(* Lookups that raise.  SpecDamaged is Spec over a cache file that may be  *)
(* missing, hold a list, or hold entries without 'cached_at', for papers   *)
(* that an earlier enrichment has given counts and of which every second   *)
(* one has no title.                                                       *)

\* the i-th paper of the batch
PriorPaper(i) ==
    [Paper(i) EXCEPT !.citation_count = 3, !.influential_citations = 1,
                     !.title = IF i % 2 = 0 THEN "" ELSE "title"]

DamagedFiles(keys) ==
    {NoFile, NotObject}
    \cup UNION {[S -> {MalformedEntry, [data |-> OldData, cached_at |-> BatchDay]}] :
                 S \in SUBSET keys}

InitDamaged ==
    /\ \E n \in 1..MaxPapers : batch = [i \in 1..n |-> PriorPaper(i)]
    /\ file \in DamagedFiles({CleanArxivId(batch[i].id) : i \in 1..Len(batch)})
    /\ mem = LoadCache(file)
    /\ PoolStarts
    /\ providers = AnyReply

SpecDamaged == InitDamaged /\ [][Next]_vars


-----------------------------------------------------------------------------
(* The pool at its capacity.  SpecPool is Spec for batches that fill the   *)
(* pool, of papers that are in no cache and that only the fallback knows   *)
(* (every lookup makes all its remote calls), on a build whose interpreter *)
(* lock makes `self.stats[k] += 1` indivisible: a worker between the load  *)
(* and the store of a counter is not preempted.  CacheHit and              *)
(* PrimarySuccess are never enabled there and are left out of NextPool.    *)

MidIncrement == {"total_attempts", "cache_hits", "success", "fail", "fallback_used"}

NotPreempted(i) == \A j \in Tasks \ {i} : task[j].pc \notin MidIncrement

InitPool ==
    /\ InitBatch(max_workers..PoolPapers)
    /\ DOMAIN file = {}
    /\ providers = PrimaryKnowsNone

NextPool ==
    \/ \E i \in Tasks : NotPreempted(i) /\ StartWorker(i)
    \/ \E i \in Tasks : NotPreempted(i) /\ AfterTotal(i)
    \/ \E i \in Tasks : NotPreempted(i) /\ PrimaryReply(i)
    \/ \E i \in Tasks : NotPreempted(i) /\ PrimaryFail(i)
    \/ \E i \in Tasks : NotPreempted(i) /\ ScholarReply(i)
    \/ \E i \in Tasks : NotPreempted(i) /\ FallbackAccepted(i)
    \/ Collect

SpecPool == InitPool /\ [][NextPool]_vars

\* Lookups that fail next to others.  SpecFailing runs a batch of two or
\* more papers against a primary provider that answers no request (not
\* found, or an exception such as the timeout of 8 seconds), over a cache
\* file in which the first paper may have an entry without 'cached_at',
\* with the scheduling of the pool: a worker thread that can take a step
\* takes it, a provider call comes back, and the main thread collects the
\* results once they are there.  CacheHit and PrimarySuccess are never
\* enabled there and are left out of NextFailing.
PrimaryDown == [primary |-> {"not found", "exception"},
                scholar |-> ScholarReplies]

InitFailing ==
    /\ \E n \in 2..MaxPapers : batch = [i \in 1..n |-> PriorPaper(i)]
    /\ file \in UNION {[S -> {MalformedEntry}] :
                       S \in SUBSET {CleanArxivId(batch[1].id)}}
    /\ mem = LoadCache(file)
    /\ PoolStarts
    /\ providers = PrimaryDown

\* the primary provider throttles the requests for the odd papers of the
\* batch (HTTP 429 at every attempt) and has the even papers not in its
\* index
ThrottledOrAbsent(n) ==
    [primary |-> {"rate limited", "not found"},
     scholar |-> ScholarReplies,
     per_paper |-> [i \in 1..n |-> IF i % 2 = 1 THEN {"rate limited"}
                                               ELSE {"not found"}]]

\* SpecThrottled runs a batch of new papers, none of them cached, against
\* that provider
InitThrottled ==
    /\ InitBatch(2..MaxPapers)
    /\ DOMAIN file = {}
    /\ providers = ThrottledOrAbsent(Len(batch))

NextFailing ==
    \/ \E i \in Tasks : StartWorker(i)
    \/ \E i \in Tasks : AfterTotal(i)
    \/ \E i \in Tasks : PrimaryReply(i)
    \/ \E i \in Tasks : PrimaryFail(i)
    \/ \E i \in Tasks : ScholarReply(i)
    \/ \E i \in Tasks : FallbackAccepted(i)
    \/ Collect

SpecFailing == InitFailing /\ [][NextFailing]_vars /\ WF_vars(NextFailing)

SpecThrottled == InitThrottled /\ [][NextFailing]_vars

-----------------------------------------------------------------------------
(* The cache under the pool.  In Spec, SpecRerun and SpecPool a cache      *)
(* operation is one step.  SpecCache is Spec with _save_cache taken apart: *)
(* open(cache_file, 'w') empties the file, json.dump writes the text of    *)
(* the dict into the file object's buffer, and leaving the `with` block    *)
(* flushes the buffer at offset 0 of the file as it then is.  Nothing in   *)
(* CitationCache orders these steps of one worker against those of         *)
(* another.                                                                *)

\* cache.get at line 108 deletes a stale entry (line 64 of citation_cache.py)
Evicts(t) ==
    LET key == CleanArxivId(t.arxiv_id)
    IN  use_cache /\ key \in DOMAIN mem /\ ~Malformed(mem[key])
            /\ Expired(mem[key], now)

\* AfterTotal, up to the json.dump of the _save_cache that follows a deletion
AfterTotalOpen(i) ==
    LET t == task[i]
        key == CleanArxivId(t.arxiv_id)
    IN  IF Evicts(t)
        THEN /\ t.pc = "total_attempts"
             /\ stats' = [stats EXCEPT !.total_attempts = t.tmp + 1]
             /\ mem' = Remove(mem, key)
             /\ file' = Truncated
             /\ task' = [task EXCEPT ![i] =
                     [t EXCEPT !.pc = "save_evict", !.arxiv_id = key,
                               !.cache_get = "expired", !.buf = mem']]
             /\ UNCHANGED <<batch, now, use_cache, use_scholar_fallback, out,
                            run, hist, normIn, normOut, providers, clock,
                            last_request_time, raised,
                   scholar_last_request_time, console>>
        ELSE AfterTotal(i)

\* the flush of that _save_cache, lines 65-66, then lines 114-119 up to the
\* first request
SaveAfterEvict(i) ==
    LET t == task[i]
    IN  /\ t.pc = "save_evict"
        /\ file' = Flush(file, t.buf)
        /\ task' = [task EXCEPT ![i] = SendPrimary([t EXCEPT !.buf = <<>>])]
        /\ UNCHANGED <<batch, stats, mem, now, use_cache, use_scholar_fallback,
                       out, run, hist, normIn, normOut, providers, clock,
                       last_request_time, raised,
                   scholar_last_request_time, console>>

\* PrimarySuccess, up to the json.dump of cache.set at line 147
PrimarySuccessOpen(i) ==
    LET t == task[i]
    IN  /\ t.pc = "success"
        /\ use_cache
        /\ stats' = [stats EXCEPT !.semantic_scholar_success = t.tmp + 1]
        /\ \/ /\ mem' = CacheSetMem(mem, t.arxiv_id, BuildResult(t.resp), now)
              /\ file' = Truncated
              /\ task' = [task EXCEPT ![i] =
                    [t EXCEPT !.pc = "save_primary", !.buf = mem']]
           \/ /\ task' = [task EXCEPT ![i] = AfterFailedAttempt(t)]
              /\ UNCHANGED <<mem, file>>
        /\ UNCHANGED <<batch, now, use_cache, use_scholar_fallback, out, run,
                       hist, normIn, normOut, providers, clock,
                       last_request_time, raised,
                   scholar_last_request_time, console>>

\* FallbackAccepted, up to the json.dump of cache.set at line 167
FallbackAcceptedOpen(i) ==
    LET t == task[i]
    IN  /\ t.pc = "fallback_used"
        /\ use_cache
        /\ stats' = [stats EXCEPT !.scholar_fallback_used = t.tmp + 1]
        /\ mem' = CacheSetMem(mem, t.arxiv_id, ScholarResult(t.resp), now)
        /\ file' = Truncated
        /\ task' = [task EXCEPT ![i] =
                [t EXCEPT !.pc = "save_fallback", !.buf = mem']]
        /\ UNCHANGED <<batch, now, use_cache, use_scholar_fallback, out, run,
                       hist, normIn, normOut, providers, clock,
                       last_request_time, raised,
                   scholar_last_request_time, console>>

\* the flush of cache.set's _save_cache, then line 149 or 169
SaveAfterSet(i) ==
    LET t == task[i]
        t1 == [t EXCEPT !.cache_sets = t.cache_sets + 1]
    IN  /\ t.pc \in {"save_primary", "save_fallback"}
        /\ file' = Flush(file, t.buf)
        /\ task' = [task EXCEPT ![i] =
                IF t.pc = "save_primary"
                THEN Return(t1, BuildResult(t.resp), "primary")
                ELSE Return(t1, ScholarResult(t.resp), "fallback")]
        /\ UNCHANGED <<batch, stats, mem, now, use_cache, use_scholar_fallback,
                       out, run, hist, normIn, normOut, providers, clock,
                       last_request_time, raised,
                   scholar_last_request_time, console>>

\* the days at which the entries SpecCache starts with were written: more
\* than the TTL ago, or today
CacheOldDays == {0, BatchDay}

InitCache ==
    /\ InitBatchOver(1..MaxPapers, CacheOldDays)
    /\ providers = AnyReply

NextCache ==
    \/ \E i \in Tasks : StartWorker(i)
    \/ \E i \in Tasks : AfterTotalOpen(i)
    \/ \E i \in Tasks : SaveAfterEvict(i)
    \/ \E i \in Tasks : CacheHit(i)
    \/ \E i \in Tasks : PrimaryReply(i)
    \/ \E i \in Tasks : PrimarySuccessOpen(i)
    \/ \E i \in Tasks : PrimaryFail(i)
    \/ \E i \in Tasks : ScholarReply(i)
    \/ \E i \in Tasks : FallbackAcceptedOpen(i)
    \/ \E i \in Tasks : SaveAfterSet(i)
    \/ Collect

SpecCache == InitCache /\ [][NextCache]_vars

-----------------------------------------------------------------------------
(* One CitationClient called by a single caller.  SpecLookup builds the    *)
(* client with any flags over any cache file, and the caller makes         *)
(* MaxCalls calls of get_citations_by_arxiv_id one after the other, with   *)
(* any identifier, title and retry_count, while the clock advances.        *)

\* the identifiers the caller passes; they clean to the same key
LookupIds == {<<"7">>, str_arXiv_mixed \o <<"7", "v", "2">>}

\* paper_title: absent (None or '') or present
LookupTitles == {"", "title"}

\* the day the client is built, and the days at which old entries were written
LookupDay == cache_days
LookupOldDays == {0, LookupDay}

\* what the caller keeps of a call: the arguments and, like fetch_citation,
\* the two counts of the result
CallerPaper(id, title) ==
    [id |-> id, title |-> title, citation_count |-> 0, influential_citations |-> 0]

InitLookup ==
    /\ batch = <<>>
    /\ task = [i \in 1..MaxCalls |-> NewTask(CallerPaper(<<>>, ""), 0)]
    /\ stats = NewStats
    /\ use_cache \in BOOLEAN
    /\ use_scholar_fallback \in BOOLEAN
    /\ file \in UNION {[S -> {[data |-> OldData, cached_at |-> d] : d \in LookupOldDays}] :
                       S \in SUBSET {CleanArxivId(id) : id \in LookupIds}}
    /\ mem = IF use_cache THEN file ELSE <<>>
    /\ now = LookupDay
    /\ out = <<>>
    /\ run = 1
    /\ hist = NoHist
    /\ normIn = <<>>
    /\ normOut = [done |-> FALSE, value |-> <<>>]
    /\ clock = 0
    /\ last_request_time = 0
    /\ scholar_last_request_time = 0
    /\ console = NoConsole
    /\ raised = FALSE
    /\ providers = AnyReply

\* the caller calls get_citations_by_arxiv_id(id, paper_title, retry_count)
\* once the previous call has returned; the call runs up to line 101
Call(i) ==
    /\ FirstQueued(i)
    /\ Running = {}
    /\ task[i].pc = "queued"
    /\ \E id \in LookupIds, title \in LookupTitles, retry_count \in 0..MaxRetry :
          task' = [task EXCEPT ![i] =
                       Entered(NewTask(CallerPaper(id, title), retry_count))]
    /\ UNCHANGED <<batch, stats, mem, file, now, use_cache,
                   use_scholar_fallback, out, run, hist, normIn, normOut, providers,
                       clock, last_request_time, raised,
                   scholar_last_request_time, console>>

\* a day passes
Tick ==
    /\ now < LookupDay + MaxTicks
    /\ now' = now + 1
    /\ UNCHANGED <<batch, task, stats, mem, file, use_cache,
                   use_scholar_fallback, out, run, hist, normIn, normOut, providers,
                       clock, last_request_time, raised,
                   scholar_last_request_time, console>>

NextLookup ==
    \/ \E i \in Tasks : Call(i)
    \/ \E i \in Tasks : AfterTotal(i)
    \/ \E i \in Tasks : CacheHit(i)
    \/ \E i \in Tasks : PrimaryReply(i)
    \/ \E i \in Tasks : PrimarySuccess(i)
    \/ \E i \in Tasks : PrimaryFail(i)
    \/ \E i \in Tasks : ScholarReply(i)
    \/ \E i \in Tasks : FallbackAccepted(i)
    \/ Tick

SpecLookup == InitLookup /\ [][NextLookup]_vars

-----------------------------------------------------------------------------
(* The counters of one CitationClient.  SpecStats builds a client with its *)
(* defaults and a single caller makes MaxStatsCalls calls on it, one after *)
(* the other: get_citations_by_arxiv_id, reset_stats or get_stats.         *)
(* task[i] is the i-th call; for reset_stats and get_stats only its        *)
(* position, its name (path) and the value it returned (metrics) are used. *)

\* the dict that reset_stats assigns, lines 271-276
StatsAfterReset ==
    [semantic_scholar_success |-> 0,
     semantic_scholar_fail |-> 0,
     scholar_fallback_used |-> 0,
     total_attempts |-> 0]

\* the caller's next call is the i-th
NextCall(i) ==
    /\ FirstQueued(i)
    /\ Running = {}
    /\ task[i].pc = "queued"

\* CitationClient.reset_stats, lines 269-276
ResetStats(i) ==
    /\ NextCall(i)
    /\ stats' = StatsAfterReset
    /\ task' = [task EXCEPT ![i] =
            [task[i] EXCEPT !.pc = "done", !.path = "reset_stats"]]
    /\ UNCHANGED <<batch, mem, file, now, use_cache, use_scholar_fallback,
                   out, run, hist, normIn, normOut, providers, clock,
                   last_request_time, raised, scholar_last_request_time, console>>

\* CitationClient.get_stats, lines 260-267: a copy of the dict
GetStats(i) ==
    /\ NextCall(i)
    /\ task' = [task EXCEPT ![i] =
            [task[i] EXCEPT !.pc = "done", !.path = "get_stats",
                            !.metrics = stats]]
    /\ UNCHANGED <<batch, stats, mem, file, now, use_cache,
                   use_scholar_fallback, out, run, hist, normIn, normOut,
                   providers, clock, last_request_time, raised,
                   scholar_last_request_time, console>>

\* CitationClient(), lines 29-44, over a cache file in which the paper may
\* have a fresh entry
InitStats ==
    /\ batch = <<>>
    /\ task = [i \in 1..MaxStatsCalls |-> NewTask(CallerPaper(<<>>, ""), 0)]
    /\ stats = NewStats
    /\ use_cache = TRUE
    /\ use_scholar_fallback = TRUE
    /\ file \in FilesWritten({CleanArxivId(id) : id \in LookupIds}, {LookupDay})
    /\ mem = file
    /\ now = LookupDay
    /\ out = <<>>
    /\ run = 1
    /\ hist = NoHist
    /\ normIn = <<>>
    /\ normOut = [done |-> FALSE, value |-> <<>>]
    /\ clock = 0
    /\ last_request_time = 0
    /\ scholar_last_request_time = 0
    /\ console = NoConsole
    /\ raised = FALSE
    /\ providers = AnyReply

NextStats ==
    \/ \E i \in Tasks : Call(i)
    \/ \E i \in Tasks : AfterTotal(i)
    \/ \E i \in Tasks : CacheHit(i)
    \/ \E i \in Tasks : PrimaryReply(i)
    \/ \E i \in Tasks : PrimarySuccess(i)
    \/ \E i \in Tasks : PrimaryFail(i)
    \/ \E i \in Tasks : ScholarReply(i)
    \/ \E i \in Tasks : FallbackAccepted(i)
    \/ \E i \in Tasks : ResetStats(i)
    \/ \E i \in Tasks : GetStats(i)

SpecStats == InitStats /\ [][NextStats]_vars

-----------------------------------------------------------------------------
(* CitationClient._wait_for_rate_limit, lines 46-51 of citation_client.py, *)
(* as the attempts of get_citations_by_arxiv_id call it (line 116) before  *)
(* each request (line 119).  ScholarClient._wait_for_rate_limit, lines     *)
(* 35-40 of scholar_client.py, is the same code with its own delay.  The   *)
(* clock advances on its own; a step of the code takes no time.            *)

\* time.time() when the client is built: last_request_time starts at 0 and
\* the epoch is long past
ClockStart == delay_seconds + 1

\* a limiter that never sleeps
NeverSleeps(elapsed) == FALSE

\* line 49
NeedsSleep(elapsed) == elapsed < delay_seconds

\* the argument of time.sleep at line 50
SleepFor(elapsed) == delay_seconds - elapsed

\* a caller of the limiter: where it is, when its sleep ends, what line 48
\* computed, and when each of its requests started
NewWaiter ==
    [pc |-> "idle", wake |-> 0, elapsed |-> 0, slept |-> FALSE, starts |-> <<>>]

\* lines 48-50 up to the start of the sleep
WaitCalled(i) ==
    LET t == task[i]
        elapsed == clock - last_request_time
    IN  /\ t.pc = "idle"
        /\ Len(t.starts) < MaxRequests
        /\ task' = [task EXCEPT ![i] =
                IF NeedsSleep(elapsed)
                THEN [t EXCEPT !.pc = "sleeping", !.elapsed = elapsed,
                               !.slept = TRUE,
                               !.wake = clock + SleepFor(elapsed)]
                ELSE [t EXCEPT !.pc = "store", !.elapsed = elapsed,
                               !.slept = FALSE]]
        /\ UNCHANGED <<batch, stats, mem, file, now, use_cache,
                       use_scholar_fallback, out, run, hist, normIn, normOut,
                       providers, clock, last_request_time, raised,
                   scholar_last_request_time, console>>

\* time.sleep returns, no earlier than asked
Woken(i) ==
    LET t == task[i]
    IN  /\ t.pc = "sleeping"
        /\ clock >= t.wake
        /\ task' = [task EXCEPT ![i] = [t EXCEPT !.pc = "store", !.wake = 0]]
        /\ UNCHANGED <<batch, stats, mem, file, now, use_cache,
                       use_scholar_fallback, out, run, hist, normIn, normOut,
                       providers, clock, last_request_time, raised,
                   scholar_last_request_time, console>>

\* line 51, the return, and the request of line 119
WaitReturns(i) ==
    LET t == task[i]
    IN  /\ t.pc = "store"
        /\ last_request_time' = clock
        /\ task' = [task EXCEPT ![i] =
                [t EXCEPT !.pc = "request", !.starts = Append(t.starts, clock)]]
        /\ UNCHANGED <<batch, stats, mem, file, now, use_cache,
                       use_scholar_fallback, out, run, hist, normIn, normOut,
                       providers, clock, raised,
                   scholar_last_request_time, console>>

\* the request is answered; the caller goes on to its next attempt
Replied(i) ==
    LET t == task[i]
    IN  /\ t.pc = "request"
        /\ task' = [task EXCEPT ![i] = [t EXCEPT !.pc = "idle"]]
        /\ UNCHANGED <<batch, stats, mem, file, now, use_cache,
                       use_scholar_fallback, out, run, hist, normIn, normOut,
                       providers, clock, last_request_time, raised,
                   scholar_last_request_time, console>>

\* half a second passes
Pass ==
    /\ clock < ClockStart + MaxElapsed
    /\ clock' = clock + 1
    /\ UNCHANGED <<batch, task, stats, mem, file, now, use_cache,
                   use_scholar_fallback, out, run, hist, normIn, normOut,
                   providers, last_request_time, raised,
                   scholar_last_request_time, console>>

\* a new CitationClient (line 31) shared by one of the given numbers of callers
InitWaiters(sizes) ==
    /\ \E n \in sizes : task = [i \in 1..n |-> NewWaiter]
    /\ clock = ClockStart
    /\ last_request_time = 0
    /\ scholar_last_request_time = 0
    /\ console = NoConsole
    /\ batch = <<>>
    /\ stats = NewStats
    /\ mem = <<>>
    /\ file = <<>>
    /\ now = 0
    /\ use_cache = TRUE
    /\ use_scholar_fallback = TRUE
    /\ out = <<>>
    /\ run = 1
    /\ hist = NoHist
    /\ normIn = <<>>
    /\ normOut = [done |-> FALSE, value |-> <<>>]
    /\ providers = AnyReply
    /\ raised = FALSE

NextLimiter ==
    \/ \E i \in Tasks : WaitCalled(i)
    \/ \E i \in Tasks : Woken(i)
    \/ \E i \in Tasks : WaitReturns(i)
    \/ \E i \in Tasks : Replied(i)
    \/ Pass

\* a single caller
InitWait == InitWaiters({1})

SpecWait == InitWait /\ [][NextLimiter]_vars

\* the workers of a batch, which share the CitationClient of line 146
InitLimiter == InitWaiters(2..MaxWaiters)

SpecLimiter == InitLimiter /\ [][NextLimiter]_vars

-----------------------------------------------------------------------------
(* A lookup in time.  SpecTimed builds a CitationClient without cache and  *)
(* a single caller makes MaxCalls lookups on it, one after the other,      *)
(* while the clock advances.  The sleeps of the lookup are steps of their  *)
(* own: the primary limiter (line 116), the backoff of line 154 and the    *)
(* limiter of the ScholarClient (line 102 of scholar_client.py), which     *)
(* _get_scholar_fallback creates at its first use (lines 68-70).           *)

\* a backoff that doubles: 1, 2, 4, ... seconds
Doubling(attempt) == 2 ^ attempt

\* line 154: the argument of time.sleep, in seconds
BackoffSeconds(attempt) == 1 * (attempt + 1)

\* the elapsed time of a limiter that both providers share
ElapsedSincePrimary == clock - last_request_time

\* line 37 of scholar_client.py
ScholarElapsed == clock - scholar_last_request_time

\* lines 38-39 of scholar_client.py
ScholarNeedsSleep(elapsed) == elapsed < scholar_delay_seconds

ScholarSleepFor(elapsed) == scholar_delay_seconds - elapsed

\* get_citations_by_arxiv_id(id, paper_title, retry_count) is called: lines
\* 101-114, up to the _wait_for_rate_limit of the first attempt
TimedCall(i) ==
    /\ NextCall(i)
    /\ stats' = [stats EXCEPT !.total_attempts = @ + 1]
    /\ \E title \in LookupTitles, retry_count \in 0..MaxTimedRetry :
          task' = [task EXCEPT ![i] =
              [NewTask(CallerPaper(<<"7">>, title), retry_count)
                   EXCEPT !.pc = "limit"]]
    /\ UNCHANGED <<batch, mem, file, now, use_cache, use_scholar_fallback,
                   out, run, hist, normIn, normOut, providers, clock,
                   last_request_time, raised, scholar_last_request_time, console>>

\* _wait_for_rate_limit at line 116: lines 48-50 up to the start of the
\* sleep, or lines 48-51 and the request of line 119
PrimaryLimit(i) ==
    LET t == task[i]
        elapsed == clock - last_request_time
    IN  /\ t.pc = "limit"
        /\ IF NeedsSleep(elapsed)
           THEN /\ task' = [task EXCEPT ![i] =
                       [t EXCEPT !.pc = "limit_sleep",
                                 !.wake = clock + SleepFor(elapsed)]]
                /\ UNCHANGED last_request_time
           ELSE /\ task' = [task EXCEPT ![i] = SendPrimary(t)]
                /\ last_request_time' = clock
        /\ UNCHANGED <<batch, stats, mem, file, now, use_cache,
                       use_scholar_fallback, out, run, hist, normIn, normOut,
                       providers, clock, raised, scholar_last_request_time, console>>

\* the sleep of line 50 ends: line 51 and the request of line 119
PrimaryLimitWoken(i) ==
    LET t == task[i]
    IN  /\ t.pc = "limit_sleep"
        /\ clock >= t.wake
        /\ task' = [task EXCEPT ![i] = SendPrimary([t EXCEPT !.wake = 0])]
        /\ last_request_time' = clock
        /\ UNCHANGED <<batch, stats, mem, file, now, use_cache,
                       use_scholar_fallback, out, run, hist, normIn, normOut,
                       providers, clock, raised, scholar_last_request_time, console>>

\* the end of the loop of line 114: line 158, then lines 161-163 up to the
\* _wait_for_rate_limit of the ScholarClient, or line 171
AfterLastAttempt(t) ==
    IF TryFallback(t.paper.title)
    THEN [t EXCEPT !.pc = "scholar_limit"]
    ELSE Return(t, None, "none")

\* `continue` at line 131: the next attempt, or the end of the loop
AfterNotFound(t) ==
    LET t1 == [t EXCEPT !.reply = "not found", !.backoff = 0]
    IN  IF MoreAttempts(t)
        THEN [t1 EXCEPT !.pc = "limit", !.attempt = t.attempt + 1]
        ELSE AfterLastAttempt(t1)

\* lines 151-155: time.sleep when an attempt is left, or the end of the loop
AfterException(t) ==
    LET t1 == [t EXCEPT !.reply = "exception"]
    IN  IF MoreAttempts(t)
        THEN [t1 EXCEPT !.pc = "backoff",
                        !.backoff = BackoffSeconds(t.attempt),
                        !.wake = clock + OneSecond * BackoffSeconds(t.attempt)]
        ELSE AfterLastAttempt([t1 EXCEPT !.backoff = 0])

\* line 119 returns or raises, and the attempt ends: lines 129-131, lines
\* 133-149 (there is no cache to set), or lines 151-155 after an exception
\* of the request or of lines 135-143
TimedPrimaryReply(i) ==
    LET t == task[i]
        last == ~MoreAttempts(t)
        failed == [stats EXCEPT !.semantic_scholar_fail = @ + 1]
        found == [stats EXCEPT !.semantic_scholar_success = @ + 1]
    IN  /\ t.pc = "get_paper"
        /\ \/ /\ PrimaryKinds(i) \cap {"not found"} # {}
              /\ task' = [task EXCEPT ![i] = AfterNotFound(t)]
              /\ stats' = IF last THEN failed ELSE stats
           \/ /\ PrimaryKinds(i) \cap {"exception", "rate limited"} # {}
              /\ task' = [task EXCEPT ![i] = AfterException(t)]
              /\ stats' = IF last THEN failed ELSE stats
           \/ \E paper \in {x \in PrimaryPapers : "paper" \in PrimaryKinds(i)} :
                LET t1 == [t EXCEPT !.resp = paper, !.found = t.found + 1]
                IN  \/ /\ task' = [task EXCEPT ![i] =
                                Return([t1 EXCEPT !.reply = "paper", !.backoff = 0],
                                       BuildResult(paper), "primary")]
                       /\ stats' = found
                    \/ /\ task' = [task EXCEPT ![i] = AfterException(t1)]
                       /\ stats' = IF last
                                   THEN [found EXCEPT !.semantic_scholar_fail = @ + 1]
                                   ELSE found
        /\ UNCHANGED <<batch, mem, file, now, use_cache, use_scholar_fallback,
                       out, run, hist, normIn, normOut, providers, clock,
                       last_request_time, raised, scholar_last_request_time, console>>

\* the sleep of line 154 ends: `continue`, the next attempt
BackoffWoken(i) ==
    LET t == task[i]
    IN  /\ t.pc = "backoff"
        /\ clock >= t.wake
        /\ task' = [task EXCEPT ![i] =
                [t EXCEPT !.pc = "limit", !.attempt = t.attempt + 1, !.wake = 0]]
        /\ UNCHANGED <<batch, stats, mem, file, now, use_cache,
                       use_scholar_fallback, out, run, hist, normIn, normOut,
                       providers, clock, last_request_time, raised,
                       scholar_last_request_time, console>>

\* the Scholar request of line 105 of scholar_client.py is sent
SendScholar(t) ==
    [t EXCEPT !.pc = "scholar", !.scholar_calls = t.scholar_calls + 1, !.wake = 0]

\* ScholarClient._wait_for_rate_limit at line 102 of scholar_client.py:
\* lines 37-39 up to the start of the sleep, or lines 37-40 and the request
ScholarLimit(i) ==
    LET t == task[i]
    IN  /\ t.pc = "scholar_limit"
        /\ IF ScholarNeedsSleep(ScholarElapsed)
           THEN /\ task' = [task EXCEPT ![i] =
                       [t EXCEPT !.pc = "scholar_sleep",
                                 !.wake = clock + ScholarSleepFor(ScholarElapsed)]]
                /\ UNCHANGED scholar_last_request_time
           ELSE /\ task' = [task EXCEPT ![i] = SendScholar(t)]
                /\ scholar_last_request_time' = clock
        /\ UNCHANGED <<batch, stats, mem, file, now, use_cache,
                       use_scholar_fallback, out, run, hist, normIn, normOut,
                       providers, clock, last_request_time, raised, console>>

\* the sleep of line 39 of scholar_client.py ends: line 40 and the request
ScholarLimitWoken(i) ==
    LET t == task[i]
    IN  /\ t.pc = "scholar_sleep"
        /\ clock >= t.wake
        /\ task' = [task EXCEPT ![i] = SendScholar(t)]
        /\ scholar_last_request_time' = clock
        /\ UNCHANGED <<batch, stats, mem, file, now, use_cache,
                       use_scholar_fallback, out, run, hist, normIn, normOut,
                       providers, clock, last_request_time, raised, console>>

\* enrich_paper_with_scholar returns: lines 73-84 and line 169
TimedScholarReply(i) ==
    LET t == task[i]
    IN  /\ t.pc = "scholar"
        /\ \E data \in providers.scholar :
              IF AcceptScholar(data)
              THEN /\ stats' = [stats EXCEPT !.scholar_fallback_used = @ + 1]
                   /\ task' = [task EXCEPT ![i] =
                          Return([t EXCEPT !.resp = data],
                                 ScholarResult(data), "fallback")]
              ELSE /\ stats' = stats
                   /\ task' = [task EXCEPT ![i] =
                          Return([t EXCEPT !.resp = data], None, "none")]
        /\ UNCHANGED <<batch, mem, file, now, use_cache, use_scholar_fallback,
                       out, run, hist, normIn, normOut, providers, clock,
                       last_request_time, raised, scholar_last_request_time, console>>

\* CitationClient(use_cache=False), lines 29-44, with or without fallback
InitTimed ==
    /\ task = [i \in 1..MaxCalls |-> NewTask(CallerPaper(<<>>, ""), 0)]
    /\ clock = ClockStart
    /\ last_request_time = 0
    /\ scholar_last_request_time = 0
    /\ console = NoConsole
    /\ stats = NewStats
    /\ use_cache = FALSE
    /\ use_scholar_fallback \in BOOLEAN
    /\ mem = <<>>
    /\ file = <<>>
    /\ now = 0
    /\ batch = <<>>
    /\ out = <<>>
    /\ run = 1
    /\ hist = NoHist
    /\ normIn = <<>>
    /\ normOut = [done |-> FALSE, value |-> <<>>]
    /\ providers = AnyReply
    /\ raised = FALSE

NextTimed ==
    \/ \E i \in Tasks : TimedCall(i)
    \/ \E i \in Tasks : PrimaryLimit(i)
    \/ \E i \in Tasks : PrimaryLimitWoken(i)
    \/ \E i \in Tasks : TimedPrimaryReply(i)
    \/ \E i \in Tasks : BackoffWoken(i)
    \/ \E i \in Tasks : ScholarLimit(i)
    \/ \E i \in Tasks : ScholarLimitWoken(i)
    \/ \E i \in Tasks : TimedScholarReply(i)
    \/ Pass

SpecTimed == InitTimed /\ [][NextTimed]_vars

-----------------------------------------------------------------------------
(* CitationCache on its own.  SpecStore builds a CitationCache over a      *)
(* file of any content and a single caller calls get, set, clear_expired   *)
(* and get_stats on it, one call after the other, while the clock          *)
(* advances.  task[1] is the record of the last call.                      *)

\* the keys of SpecStore
StoreKeys == {<<"7">>, <<"8">>}

\* the file contents a CitationCache can be built over
StoreFiles ==
    {NoFile, Unparseable(1), NotObject}
    \cup UNION {[S -> {MalformedEntry}
                        \cup {[data |-> OldData, cached_at |-> d] : d \in LookupOldDays}] :
                 S \in SUBSET StoreKeys}

\* what set and get are called with
StoreData == {BuildResult(paper) : paper \in PrimaryPapers}

NewOp == [op |-> "new", key |-> <<>>, arg |-> None, outcome |-> "returned",
          value |-> None, n |-> 0]

\* the call returned v
Returned(op, k, arg, v) ==
    [op |-> op, key |-> k, arg |-> arg, outcome |-> "returned", value |-> v,
     n |-> task[1].n + 1]

\* the call raised
Raised(op, k, arg) ==
    [op |-> op, key |-> k, arg |-> arg, outcome |-> "raised", value |-> None,
     n |-> task[1].n + 1]

\* a save that does not write the file
SaveSkipped(m, f) == f

\* _save_cache, lines 38-44: the file afterwards
Saved(m, f) == m

\* CitationCache.get, lines 56-68
CacheGet(k) ==
    /\ task[1].n < MaxOps
    /\ IF mem = NotObject \/ k \notin DOMAIN mem
       THEN /\ task' = <<Returned("get", k, None, None)>>
            /\ UNCHANGED <<mem, file>>
       ELSE IF Malformed(mem[k])
       THEN /\ task' = <<Raised("get", k, None)>>
            /\ UNCHANGED <<mem, file>>
       ELSE /\ task' = <<Returned("get", k, None, CacheGetValue(mem, k, now))>>
            /\ mem' = CacheGetMem(mem, k, now)
            /\ file' = IF Expired(mem[k], now) THEN Saved(mem', file) ELSE file
    /\ UNCHANGED <<batch, stats, now, use_cache, use_scholar_fallback, out,
                   run, hist, normIn, normOut, providers, clock,
                   last_request_time, raised,
                   scholar_last_request_time, console>>

\* CitationCache.set, lines 78-82
CacheSet(k, data) ==
    /\ task[1].n < MaxOps
    /\ IF mem = NotObject
       THEN /\ task' = <<Raised("set", k, data)>>
            /\ UNCHANGED <<mem, file>>
       ELSE /\ task' = <<Returned("set", k, data, None)>>
            /\ mem' = CacheSetMem(mem, k, data, now)
            /\ file' = Saved(mem', file)
    /\ UNCHANGED <<batch, stats, now, use_cache, use_scholar_fallback, out,
                   run, hist, normIn, normOut, providers, clock,
                   last_request_time, raised,
                   scholar_last_request_time, console>>

\* the loop of lines 89-92 and of lines 107-110 raises
ScanRaises(m) == m = NotObject \/ \E k \in DOMAIN m : Malformed(m[k])

\* a scan that also takes the entries whose age has just reached the TTL
KeysAtTTL(m, t) == {k \in DOMAIN m : ExpiredAtTTL(m[k], t)}

\* expired_keys, lines 87-92
ExpiredKeys(m, t) == {k \in DOMAIN m : Expired(m[k], t)}

\* clear_expired returned, having deleted the given keys (observer)
Cleared(removed) ==
    [op |-> "clear_expired", key |-> <<>>, arg |-> None, outcome |-> "returned",
     value |-> None, n |-> task[1].n + 1, removed |-> removed]

\* CitationCache.clear_expired, lines 86-98
ClearExpired ==
    /\ task[1].n < MaxOps
    /\ IF ScanRaises(mem)
       THEN /\ task' = <<Raised("clear_expired", <<>>, None)>>
            /\ UNCHANGED <<mem, file>>
       ELSE /\ task' = <<Cleared(ExpiredKeys(mem, now))>>
            /\ mem' = [k \in DOMAIN mem \ ExpiredKeys(mem, now) |-> mem[k]]
            /\ file' = IF ExpiredKeys(mem, now) # {}
                       THEN Saved(mem', file) ELSE file
    /\ UNCHANGED <<batch, stats, now, use_cache, use_scholar_fallback, out,
                   run, hist, normIn, normOut, providers, clock,
                   last_request_time, raised,
                   scholar_last_request_time, console>>

\* CitationCache.get_stats, lines 102-116
CacheGetStats ==
    /\ task[1].n < MaxOps
    /\ task' = IF ScanRaises(mem)
               THEN <<Raised("get_stats", <<>>, None)>>
               ELSE <<Returned("get_stats", <<>>, None,
                        [total_entries |-> Cardinality(DOMAIN mem),
                         valid_entries |-> Cardinality(DOMAIN mem)
                                           - Cardinality(ExpiredKeys(mem, now)),
                         expired_entries |-> Cardinality(ExpiredKeys(mem, now))])>>
    /\ UNCHANGED <<batch, stats, mem, file, now, use_cache,
                   use_scholar_fallback, out, run, hist, normIn, normOut,
                   providers, clock, last_request_time, raised,
                   scholar_last_request_time, console>>

\* CitationCache.__init__, lines 22-25
InitStore ==
    /\ file \in StoreFiles
    /\ mem = LoadCache(file)
    /\ now = LookupDay
    /\ task = <<NewOp>>
    /\ batch = <<>>
    /\ stats = NewStats
    /\ use_cache = TRUE
    /\ use_scholar_fallback = TRUE
    /\ out = <<>>
    /\ run = 1
    /\ hist = NoHist
    /\ normIn = <<>>
    /\ normOut = [done |-> FALSE, value |-> <<>>]
    /\ providers = AnyReply
    /\ clock = 0
    /\ last_request_time = 0
    /\ scholar_last_request_time = 0
    /\ console = NoConsole
    /\ raised = FALSE

NextStore ==
    \/ \E k \in StoreKeys : CacheGet(k)
    \/ \E k \in StoreKeys, data \in StoreData : CacheSet(k, data)
    \/ ClearExpired
    \/ CacheGetStats
    \/ Tick

SpecStore == InitStore /\ [][NextStore]_vars

-----------------------------------------------------------------------------
(* The identifier clean-up alone.  SpecNorm hands line 104 a prefix, a     *)
(* bare identifier and a version suffix, each possibly empty.              *)

\* spellings of the provider prefix
PrefixSpellings ==
    {str_arxiv_lower, str_arXiv_mixed,
     <<"A", "R", "X", "I", "V", ":">>, <<"A", "r", "x", "i", "v", ":">>}

\* bare identifiers: new style, old style, and a short one
BareIds ==
    {<<"2", "3", "0", "1", ".", "1", "2", "3", "4", "5">>,
     <<"h", "e", "p", "-", "t", "h", "/", "9", "9", "0", "1", "0", "0", "1">>,
     <<"0", "7", "0", "4", ".", "0", "0", "0", "1">>,
     <<"7">>}

\* the suffix "v" + str(n)
VersionSuffix(n) == <<"v">> \o Decimal(n)

NormInputs ==
    {p \o b \o v : p \in PrefixSpellings \cup {<<>>},
                   b \in BareIds,
                   v \in {VersionSuffix(n) : n \in 1..MaxVersion} \cup {<<>>}}

InitNorm ==
    /\ normIn \in NormInputs
    /\ normOut = [done |-> FALSE, value |-> <<>>]
    /\ batch = <<>>
    /\ task = <<>>
    /\ stats = NewStats
    /\ mem = <<>>
    /\ file = <<>>
    /\ now = 0
    /\ use_cache = TRUE
    /\ use_scholar_fallback = TRUE
    /\ out = <<>>
    /\ run = 1
    /\ hist = NoHist
    /\ providers = AnyReply
    /\ clock = 0
    /\ last_request_time = 0
    /\ scholar_last_request_time = 0
    /\ console = NoConsole
    /\ raised = FALSE

\* line 104
Clean ==
    /\ ~normOut.done
    /\ normOut' = [done |-> TRUE, value |-> CleanArxivId(normIn)]
    /\ UNCHANGED <<batch, task, stats, mem, file, now, use_cache,
                   use_scholar_fallback, out, run, hist, normIn, providers,
                       clock, last_request_time, raised,
                   scholar_last_request_time, console>>

NextNorm == Clean

SpecNorm == InitNorm /\ [][NextNorm]_vars

-----------------------------------------------------------------------------
(* Properties *)

Done(i) == task[i].pc = "done"

AllDone == \A i \in Tasks : Done(i)

TasksOnPath(path) == {i \in Tasks : task[i].path = path}

RECURSIVE SumFound(_)
\* sch.get_paper calls of the tasks in S that returned a paper
SumFound(S) ==
    IF S = {} THEN 0
    ELSE LET i == CHOOSE x \in S : TRUE IN task[i].found + SumFound(S \ {i})

\* every primary attempt of the call has been made and none gave a record
Exhausted(t) ==
    /\ t.primary_calls = t.retry_count + 1
    /\ t.pc \in {"fail", "scholar", "fallback_used", "done"}
    /\ t.path # "primary"

\* a Scholar reply with no publication, or with a zero or missing count
ZeroOrMissing(data) == data = None \/ data.citation_count = 0

\* C1: whatever the interleaving of the workers, the list the batch
\* enrichment returns has the length of the input and holds at position j
\* the paper that was at position j of the input (the object fetch_citation
\* was given for it, enriched or not).
C1_OrderPreserved ==
    out # <<>> =>
        /\ Len(out) = Len(batch)
        /\ \A j \in 1..Len(batch) :
              /\ out[j].id = batch[j].id
              /\ out[j].title = batch[j].title
              /\ out[j] = task[j].paper

\* C1 witness: a batch of two papers has been returned, and the two were
\* enriched with different counts.
C1_Witness ==
    /\ Len(out) = 2
    /\ Len(batch) = 2
    /\ out[1].citation_count # out[2].citation_count

C3_FallbackGating ==
    \A i \in Tasks :
        LET t == task[i]
            gate == /\ Exhausted(t)
                    /\ use_scholar_fallback
                    /\ t.paper.title # ""
        IN  /\ t.scholar_calls \in {0, 1}
            /\ t.scholar_calls = 1 => gate
            /\ t.pc \in {"scholar", "fallback_used", "done"} /\ gate
                   => t.scholar_calls = 1
            /\ t.path \in {"cache", "primary"} => t.scholar_calls = 0

\* C3 witness: a lookup whose two primary attempts ended without a record
\* has queried the fallback and returned.
C3_Witness ==
    \E i \in Tasks :
        /\ Done(i)
        /\ task[i].scholar_calls = 1
        /\ task[i].primary_calls = 2
        /\ task[i].retry_count = 1

\* C4, the state part: a lookup whose Scholar reply had a zero or missing
\* count has returned None, made no cache.set, and is not counted in
\* scholar_fallback_used.
C4_RejectedState ==
    /\ \A i \in Tasks :
          task[i].scholar_calls = 1 /\ task[i].pc # "scholar"
              /\ ZeroOrMissing(task[i].resp)
          => /\ Done(i)
             /\ task[i].metrics = None
             /\ task[i].path = "none"
             /\ task[i].cache_sets = 0
    /\ stats.scholar_fallback_used = Cardinality(TasksOnPath("fallback"))

\* C4, the step part: the step that receives such a reply changes no
\* counter, no entry of the in-memory cache and nothing in the cache file.
C4_RejectedStep ==
    \A i \in Tasks :
        task[i].pc = "scholar" /\ task'[i].pc # "scholar"
            /\ ZeroOrMissing(task'[i].resp)
        => /\ stats' = stats
           /\ mem' = mem
           /\ file' = file

\* C4: when the fallback provider returns a result whose citation count is
\* zero or missing, the lookup returns None, scholar_fallback_used is not
\* incremented and no cache entry is written or changed.
C4_ZeroCountRejected == []C4_RejectedState /\ [][C4_RejectedStep]_vars

\* C4 witness: Scholar answered with a count of zero and the lookup is over.
C4_Witness ==
    \E i \in Tasks :
        /\ Done(i)
        /\ task[i].scholar_calls = 1
        /\ task[i].resp = [citation_count |-> 0]
        /\ use_cache

\* C5: when the batch is enriched a second time within the TTL, with caching
\* enabled, after an enrichment that got a record for every paper, the
\* second enrichment makes no primary and no fallback call and ends with
\* cache_hits equal to the batch size.
C5_SecondRunAllHits ==
    run = 2 /\ AllDone /\ hist.enriched = Tasks /\ now = BatchDay
    => /\ \A i \in Tasks : task[i].primary_calls = 0 /\ task[i].scholar_calls = 0
       /\ stats.cache_hits = Len(batch)

\* C6: the step of a lookup that reads the cache treats an entry older than
\* the TTL as a miss (the entry leaves the in-memory dict and the file,
\* cache_hits is not touched, the first primary request is sent) and an
\* entry of age at most the TTL as a hit (the cached data is what the lookup
\* will return, the cache is unchanged).
C6_TTLStep ==
    \A i \in Tasks :
        LET key == CleanArxivId(task[i].arxiv_id)
        IN  task[i].pc = "total_attempts" /\ task'[i].pc # "total_attempts"
                /\ use_cache /\ key \in DOMAIN mem
            => IF now - mem[key].cached_at > cache_days
               THEN /\ key \notin DOMAIN mem'
                    /\ key \notin DOMAIN file'
                    /\ stats'.cache_hits = stats.cache_hits
                    /\ task'[i].pc = "get_paper"
                    /\ task'[i].primary_calls = 1
                    /\ task'[i].metrics = None
               ELSE /\ task'[i].pc = "cache_hits"
                    /\ task'[i].metrics = mem[key].data
                    /\ mem' = mem
                    /\ file' = file

\* C6, the state part: a lookup that found a stale entry never counts as a
\* cache hit, and a lookup that found a fresh one returns it and is counted.
C6_TTLState ==
    \A i \in Tasks :
        /\ task[i].cache_get = "expired" => task[i].path # "cache"
        /\ task[i].cache_get = "hit" /\ Done(i) =>
              /\ task[i].path = "cache"
              /\ Truthy(task[i].metrics)
              /\ task[i].paper.citation_count = task[i].metrics.citation_count
              /\ task[i].primary_calls = 0
              /\ stats.cache_hits >= 1

C7_VersionStripped ==
    normOut.done =>
        \A b \in BareIds, n \in 1..MaxVersion :
            normIn = b \o VersionSuffix(n) => normOut.value = b

\* C8: for every bare identifier b and every spelling p of the prefix
\* "arxiv:", p + b is cleaned to b.
C8_PrefixStrippedAnyCase ==
    normOut.done =>
        \A b \in BareIds, p \in PrefixSpellings :
            normIn = p \o b => normOut.value = b

\* the papers of the batch that failed every primary attempt (no attempt
\* returned a paper) and for which Scholar gave the count c
FellBack(c) ==
    {i \in Tasks : /\ task[i].path = "fallback"
                   /\ task[i].found = 0
                   /\ task[i].primary_calls = task[i].retry_count + 1
                   /\ task[i].resp = [citation_count |-> c]}

\* C9: when a batch of k papers with a fresh cache entry and m uncached
\* papers that fail every primary attempt and get the fallback count 12 has
\* completed, cache_hits = k, semantic_scholar_fail = m,
\* scholar_fallback_used = m, semantic_scholar_success = 0,
\* total_attempts = k + m, and each of the m papers has citation_count 12.
C9_Scenario ==
    LET k == Cardinality(TasksOnPath("cache"))
        m == Cardinality(FellBack(12))
    IN  run = 1 /\ AllDone /\ k >= 1 /\ m >= 1 /\ k + m = Len(batch)
        => /\ stats.cache_hits = k
           /\ stats.semantic_scholar_fail = m
           /\ stats.scholar_fallback_used = m
           /\ stats.semantic_scholar_success = 0
           /\ stats.total_attempts = k + m
           /\ \A i \in FellBack(12) : task[i].paper.citation_count = 12

\* C10: for every interleaving of the workers no increment of a counter is
\* lost: when the batch has completed, total_attempts is the batch size and
\* every other counter is the number of times its increment was executed.
C10_NoLostIncrement ==
    run = 1 /\ AllDone
    => /\ stats.total_attempts = Len(batch)
       /\ stats.cache_hits = Cardinality(TasksOnPath("cache"))
       /\ stats.semantic_scholar_success = SumFound(Tasks)
       /\ stats.semantic_scholar_fail =
              Cardinality(TasksOnPath("fallback") \cup TasksOnPath("none"))
       /\ stats.scholar_fallback_used = Cardinality(TasksOnPath("fallback"))

\* C11: for every interleaving of the workers' cache.get and cache.set
\* calls, once the batch has been returned the cache file is a well-formed
\* mapping, equal to the in-memory dict, with an entry for every paper whose
\* record was fetched in the batch.
C11_FileMatchesMemory ==
    BatchReturned =>
        /\ NotJson \notin DOMAIN file
        /\ file = mem
        /\ \A i \in Tasks :
              task[i].path \in {"primary", "fallback"}
                  => task[i].arxiv_id \in DOMAIN file

\* C12: any two requests made through the shared limiter, by the same or by
\* different workers, start at least delay_seconds apart.
C12_SharedSpacing ==
    \A i \in Tasks, j \in Tasks :
        \A k \in DOMAIN task[i].starts, l \in DOMAIN task[j].starts :
            <<i, k>> # <<j, l>> =>
                \/ task[i].starts[k] - task[j].starts[l] >= delay_seconds
                \/ task[j].starts[l] - task[i].starts[k] >= delay_seconds

\* C13, the state part: consecutive returns of the single caller's waits
\* are at least delay_seconds apart.
C13_WaitState ==
    \A i \in Tasks :
        \A k \in DOMAIN task[i].starts :
            k > 1 => task[i].starts[k] - task[i].starts[k - 1] >= delay_seconds

\* C13, the step part: the step on which a wait returns leaves
\* last_request_time at the time of the return, and a wait called when at
\* least delay_seconds have elapsed since the previous return goes to its
\* return without sleeping.
C13_WaitStep ==
    \A i \in Tasks :
        /\ task[i].pc = "store" /\ task'[i].pc = "request"
               => /\ last_request_time' = clock'
                  /\ task'[i].starts[Len(task'[i].starts)] = clock'
        /\ task[i].pc = "idle" /\ task'[i].pc # "idle"
               /\ clock - last_request_time >= delay_seconds
               => task'[i].pc = "store" /\ ~task'[i].slept

\* C13: for a single caller every wait returns no earlier than
\* delay_seconds after its previous wait returned, last_request_time is then
\* the time of the return, and a wait called when delay_seconds have already
\* elapsed does not sleep.
C13_SingleCallerWait == []C13_WaitState /\ [][C13_WaitStep]_vars

\* C13 witness: the caller's second wait was called half a second after the
\* first returned, slept, and returned exactly delay_seconds after it.
C13_Witness ==
    \E i \in Tasks :
        /\ Len(task[i].starts) = 2
        /\ task[i].slept
        /\ task[i].elapsed = 1
        /\ task[i].starts[2] = task[i].starts[1] + delay_seconds
        /\ last_request_time = task[i].starts[2]

\* the entries of a file; a file that is missing or is not a JSON object
\* has none
Entries(f) ==
    IF f \in {NoFile, NotObject} \/ NotJson \in DOMAIN f THEN <<>> ELSE f

\* the step is a call of set that returns
SetReturns == task'[1].n = task[1].n + 1 /\ task'[1].op = "set"
                  /\ task'[1].outcome = "returned"

\* C14: when set(id, record) returns, the in-memory dict and the file both
\* hold for id the entry with data = record and cached_at = the time of the
\* call, and every other entry of either is as it was.
C14_SetStep ==
    SetReturns =>
        LET id == task'[1].key
            entry == [data |-> task'[1].arg, cached_at |-> now]
        IN  /\ id \in DOMAIN mem' /\ mem'[id] = entry
            /\ id \in DOMAIN file' /\ file'[id] = entry
            /\ DOMAIN mem' = DOMAIN mem \cup {id}
            /\ DOMAIN file' = DOMAIN Entries(file) \cup {id}
            /\ \A k \in DOMAIN mem \ {id} : mem'[k] = mem[k]
            /\ \A k \in DOMAIN Entries(file) \ {id} : file'[k] = file[k]

C15_NeverRaises ==
    /\ task[1].outcome # "raised"
    /\ task[1].op = "get" /\ task[1].n = 1 /\ Entries(file) = <<>>
           => task[1].value = None

\* C16: a paper whose lookup obtained no record (every primary attempt
\* failed and the fallback was not tried or gave nothing, or the lookup
\* raised) is the paper that was handed in, with the counts it had before
\* the call and every other field unchanged, and is returned as such.
C16_UnenrichedUnchanged ==
    \A i \in Tasks :
        Done(i) /\ ~Truthy(task[i].metrics) =>
            /\ task[i].paper = batch[i]
            /\ BatchReturned => out[i] = batch[i]

\* C16 witness: the batch of two papers with earlier counts has been
\* returned; the lookup of the first raised, the second has no title and
\* failed every primary attempt.
C16_Witness ==
    /\ BatchReturned
    /\ Len(batch) = 2
    /\ task[1].path = "raised"
    /\ task[2].path = "none" /\ task[2].primary_calls = 2
    /\ task[2].scholar_calls = 0
    /\ out[1].citation_count = 3 /\ out[2].influential_citations = 1

\* C17: no failure of a paper's lookup (not found, exception of a provider,
\* exception of the cache, rejected fallback) makes _enrich_with_citations
\* raise: no call of fetch_citation ends with an exception, once every
\* lookup is over the result list can be built, and it holds every paper.
C17_FailuresAbsorbed ==
    /\ ~raised
    /\ \A i \in Tasks : task[i].pc # "failed"
    /\ AllDone /\ ~BatchReturned => ENABLED Collect
    /\ BatchReturned =>
          /\ Len(out) = Len(batch)
          /\ \A j \in 1..Len(batch) : out[j].id = batch[j].id

\* C17 witness: a batch has been returned although the lookup of one paper
\* raised in cache.get, that of the other raised in cache.set after both
\* providers were tried, or failed at both providers.
C17_Witness ==
    /\ BatchReturned
    /\ \E i \in Tasks : task[i].cache_get = "raised"
    /\ \E i \in Tasks :
          /\ task[i].cache_get # "raised"
          /\ task[i].primary_calls = 2
          /\ task[i].scholar_calls = 1
          /\ ~Truthy(task[i].metrics)

\* C18, the state part: a lookup makes at most retry_count + 1 primary
\* requests, none after a cache hit, exactly retry_count + 1 when it ends
\* without a record from the primary provider, it is over as soon as an
\* attempt has given its record, and it has called the limiter's wait as
\* many times as it has sent requests.
C18_AttemptsState ==
    \A i \in Tasks :
        LET t == task[i]
        IN  /\ t.primary_calls <= t.retry_count + 1
            /\ t.waits = t.primary_calls
            /\ t.cache_get = "hit" => t.primary_calls = 0
            /\ Done(i) /\ t.cache_get # "hit" /\ t.path # "primary"
                   => t.primary_calls = t.retry_count + 1
            /\ t.path = "primary" => Done(i) /\ Truthy(t.metrics)

\* C18, the step part: a step sends at most one primary request, and the
\* step that sends one has first called the limiter's wait and belongs to a
\* lookup that has no record yet.
C18_AttemptsStep ==
    \A i \in Tasks :
        task[i].pc # "queued" =>
            /\ task'[i].primary_calls \in
                   {task[i].primary_calls, task[i].primary_calls + 1}
            /\ task'[i].primary_calls = task[i].primary_calls + 1 =>
                   /\ task'[i].waits = task[i].waits + 1
                   /\ task'[i].pc = "get_paper"
                   /\ ~Truthy(task[i].metrics)

\* C18: a lookup that misses the cache makes at most retry_count + 1 primary
\* requests, exactly that many when no attempt gives a record, stops at the
\* first attempt that gives one, and calls the limiter's wait before every
\* request.
C18_BoundedAttempts == []C18_AttemptsState /\ [][C18_AttemptsStep]_vars

\* C18 witness: a lookup with retry_count = 2 has sent three requests, the
\* provider found nothing, and the lookup has ended without a record.
C18_Witness ==
    \E i \in Tasks :
        /\ Done(i)
        /\ task[i].retry_count = 2
        /\ task[i].primary_calls = 3
        /\ task[i].waits = 3
        /\ task[i].found = 0
        /\ task[i].path = "none"

\* the lookups that have executed line 101
Counted == {i \in Tasks : task[i].pc \notin {"queued", "total_attempts"}}

\* C19, the step part: total_attempts changes only on the step of a lookup
\* that executes line 101, and grows by one.
C19_TotalStep ==
    stats'.total_attempts # stats.total_attempts =>
        /\ stats'.total_attempts = stats.total_attempts + 1
        /\ \E i \in Tasks : task[i].pc = "total_attempts" /\ i \in Counted'

\* C19: each lookup increments total_attempts exactly once, however many
\* primary attempts it makes and however it ends.
C19_OncePerLookup ==
    /\ [](stats.total_attempts = Cardinality(Counted))
    /\ [][C19_TotalStep]_vars

\* C19 witness: a lookup that made three primary attempts and ended with
\* the fallback's record has been counted once.
C19_Witness ==
    \E i \in Tasks :
        /\ Done(i)
        /\ task[i].primary_calls = 3
        /\ task[i].path = "fallback"
        /\ stats.total_attempts = 1

\* C20: when no lookup is running, semantic_scholar_success is the number
\* of lookups that returned a record of the primary provider,
\* semantic_scholar_fail the number of lookups that missed the cache and
\* returned none: a lookup that misses the cache increments exactly one of
\* the two, once, and a lookup that hits the cache neither.
C20_OneOutcomeCounter ==
    Running = {} =>
        /\ stats.semantic_scholar_success = Cardinality(TasksOnPath("primary"))
        /\ stats.semantic_scholar_fail =
               Cardinality({i \in Tasks : /\ Done(i)
                                          /\ task[i].cache_get # "hit"
                                          /\ task[i].path # "primary"})

\* C21: after reset_stats, get_stats returns the five counters
\* total_attempts, semantic_scholar_success, semantic_scholar_fail,
\* scholar_fallback_used and cache_hits, each equal to zero: the counters of
\* a newly created client.
C21_ResetLikeNew ==
    \A i \in Tasks :
        (i > 1 /\ task[i].path = "get_stats" /\ task[i - 1].path = "reset_stats")
            => /\ DOMAIN task[i].metrics = DOMAIN NewStats
               /\ \A k \in DOMAIN NewStats : task[i].metrics[k] = 0

\* C22: a lookup goes cache -> primary -> fallback -> cache write.  A
\* lookup that hits the cache makes no rate-limiter wait, no primary call,
\* no fallback call and no cache.set, and returns the record of the entry;
\* no primary call is made before cache.get has reported a miss; the
\* fallback is queried only after the primary attempts; cache.set is called
\* only by a lookup that returns a primary or fallback record, at most once.
C22_OrderState ==
    \A i \in Tasks :
        LET t == task[i]
        IN  /\ t.cache_get = "hit" =>
                  /\ t.waits = 0 /\ t.primary_calls = 0
                  /\ t.scholar_calls = 0 /\ SetCalls(t) = 0
                  /\ Done(i) => t.path = "cache" /\ Truthy(t.metrics)
            /\ t.path = "cache" => t.cache_get = "hit"
            /\ (use_cache /\ t.primary_calls > 0) =>
                  t.cache_get \in {"absent", "expired"}
            /\ t.scholar_calls > 0 => t.primary_calls = t.retry_count + 1
            /\ SetCalls(t) > 0 =>
                  /\ Done(i) /\ SetCalls(t) = 1
                  /\ t.path \in {"primary", "fallback"}
                  /\ t.path = "primary" => t.found >= 1
                  /\ t.path = "fallback" => t.scholar_calls = 1

\* C22, the steps: a hit returns the data of the entry and leaves the cache
\* and its file as they are; the step that calls cache.set returns, and
\* what it stores under the paper's key is the record it returns; the cache
\* changes only by such a step or by the eviction of a stale entry.
C22_OrderStep ==
    /\ \A i \in Tasks :
         /\ (task[i].pc = "total_attempts" /\ task'[i].pc = "cache_hits") =>
               /\ task'[i].arxiv_id \in DOMAIN mem
               /\ task'[i].metrics = mem[task'[i].arxiv_id].data
               /\ UNCHANGED <<mem, file>>
         /\ (task[i].pc = "cache_hits" /\ task'[i] # task[i]) =>
               /\ task'[i].metrics = task[i].metrics
               /\ UNCHANGED <<mem, file>>
         /\ SetCalls(task'[i]) # SetCalls(task[i]) =>
               /\ task'[i].pc = "done"
               /\ task'[i].path \in {"primary", "fallback"}
               /\ task'[i].arxiv_id \in DOMAIN mem'
               /\ mem'[task'[i].arxiv_id] =
                      [data |-> task'[i].metrics, cached_at |-> now]
               /\ file' = mem'
    /\ mem' # mem =>
         \E i \in Tasks :
             \/ SetCalls(task'[i]) = SetCalls(task[i]) + 1
             \/ task[i].pc = "total_attempts" /\ task'[i].cache_get = "expired"

C22_LookupOrder == []C22_OrderState /\ [][C22_OrderStep]_vars

\* C22 witness: a lookup found a stale entry, made its three primary
\* attempts, then queried the fallback, and the record it returned is the
\* one now in the cache.
C22_Witness ==
    \E i \in Tasks :
        /\ Done(i) /\ task[i].path = "fallback"
        /\ task[i].cache_get = "expired"
        /\ task[i].primary_calls = 3 /\ task[i].scholar_calls = 1
        /\ SetCalls(task[i]) = 1
        /\ mem[task[i].arxiv_id].data = task[i].metrics

\* C23: one lookup calls cache.set at most once, on every path: primary
\* success at any attempt, fallback success, failure, and the paths on
\* which an attempt raised after the provider had returned the paper.
C23_SetAtMostOnce ==
    \A i \in Tasks : SetCalls(task[i]) <= 1

\* C24: a paper's lookup that fails (not found, exception or timeout of a
\* provider, exception of the cache) cancels or skips no other lookup of
\* the batch.  A queued call is started as soon as fewer than max_workers
\* calls run, whatever the calls before it came back with; a running
\* lookup can always take its next step, whatever the state of the others;
\* a step of one lookup leaves the locals of every other as they are; the
\* batch is returned only when every lookup has been entered and is done;
\* and, the workers being scheduled, every lookup gets done.
C24_NoCancelState ==
    /\ \A i \in Tasks :
          /\ (task[i].pc = "queued" /\ FirstQueued(i)
                 /\ Cardinality(Running) < max_workers) => ENABLED StartWorker(i)
          /\ i \in Running => ENABLED WorkerStep(i)
          /\ task[i].pc # "failed"
    /\ BatchReturned =>
          \A i \in Tasks : Done(i) /\ task[i].cache_get # "no"

C24_NoCancelStep ==
    \A i \in Tasks :
       task'[i] # task[i] => \A j \in Tasks \ {i} : task'[j] = task[j]

C24_AllComplete == <>[](\A i \in Tasks : Done(i))

C24_NoCancellation ==
    []C24_NoCancelState /\ [][C24_NoCancelStep]_vars /\ C24_AllComplete

\* C24 witness: a batch of two papers has been returned; the lookup of the
\* second failed at both primary attempts and had no fallback, that of the
\* first failed at the primary too and got its record from the fallback.
C24_Witness ==
    /\ BatchReturned
    /\ Len(batch) = 2
    /\ task[2].path = "none" /\ task[2].primary_calls = 2
    /\ task[1].path = "fallback" /\ task[1].primary_calls = 2
    /\ out[1].citation_count = 12

\* C25: a fallback result that is accepted increments scholar_fallback_used
\* by exactly one and gives a record whose citation_count is the count
\* Scholar reported and whose influential_citations and reference_count
\* are 0; nothing else increments that counter.
C25_FallbackRecord ==
    /\ stats.scholar_fallback_used =
           Cardinality({i \in Tasks : task[i].path = "fallback"})
    /\ \A i \in Tasks :
          task[i].path = "fallback" =>
              /\ task[i].resp \in ScholarReplies \ {None}
              /\ task[i].resp.citation_count > 0
              /\ task[i].metrics =
                     [citation_count |-> task[i].resp.citation_count,
                      influential_citations |-> 0,
                      reference_count |-> 0]

\* C25 witness: a lookup has returned the record of a fallback result with
\* 12 citations, and the counter stands at 1.
C25_Witness ==
    \E i \in Tasks :
        /\ Done(i) /\ task[i].path = "fallback"
        /\ task[i].metrics.citation_count = 12
        /\ task[i].metrics.influential_citations = 0
        /\ stats.scholar_fallback_used = 1

\* C26: every record that a lookup returns, and every record stored in the
\* cache, carries a source tag: primary when a primary attempt produced it,
\* fallback when the fallback provider produced it.
C26_SourceTagged ==
    \A i \in Tasks :
        (Done(i) /\ task[i].path \in {"primary", "fallback"}) =>
            /\ "source" \in DOMAIN task[i].metrics
            /\ task[i].metrics.source = task[i].path
            /\ task[i].cache_sets = 1 =>
                  \E k \in DOMAIN mem :
                      /\ "source" \in DOMAIN mem[k].data
                      /\ mem[k].data.source = task[i].path

\* what the caller of the batch gets about its i-th paper: the returned
\* paper but for the identity it was handed in with.  The lookup's log
\* lines are debug messages of a logger set to WARNING, and the statistics
\* line of _enrich_with_citations holds totals of the batch.
Surfaced(i) ==
    [citation_count |-> out[i].citation_count,
     influential_citations |-> out[i].influential_citations,
     raised |-> raised]

\* C27: a rate-limit answer of the primary provider (HTTP 429 or a
\* throttling error) reaches the caller of the batch as an outcome that
\* differs from "not found": what the caller gets about a paper whose
\* requests were throttled differs from what it gets about a paper absent
\* from the provider's index.
C27_RateLimitSurfaced ==
    BatchReturned =>
        \A i, j \in Tasks :
            (PrimaryKinds(i) = {"rate limited"} /\ PrimaryKinds(j) = {"not found"})
                => Surfaced(i) # Surfaced(j)

\* C28: the primary and the fallback provider have a rate limiter each.  A
\* step that stores the last-call time of one limiter belongs to that
\* limiter and leaves the last-call time of the other as it is; a sleep of
\* a limiter, and the backoff sleep, store neither; whether and how long a
\* limiter sleeps is decided by its own last-call time alone, so a request
\* is sent without delay when its own provider's last request is at least
\* that limiter's delay ago.
C28_IndependentLimiters ==
    [][/\ last_request_time' # last_request_time =>
            /\ scholar_last_request_time' = scholar_last_request_time
            /\ \E i \in Tasks : /\ task[i].pc \in {"limit", "limit_sleep"}
                                 /\ task'[i].pc = "get_paper"
       /\ scholar_last_request_time' # scholar_last_request_time =>
            /\ last_request_time' = last_request_time
            /\ \E i \in Tasks : /\ task[i].pc \in {"scholar_limit", "scholar_sleep"}
                                 /\ task'[i].pc = "scholar"
       /\ \A i \in Tasks :
            /\ (task[i].pc = "limit" /\ task'[i] # task[i]) =>
                  IF clock - last_request_time >= delay_seconds
                  THEN task'[i].pc = "get_paper" /\ last_request_time' = clock
                  ELSE /\ task'[i].pc = "limit_sleep"
                       /\ task'[i].wake = last_request_time + delay_seconds
                       /\ UNCHANGED <<last_request_time, scholar_last_request_time, console>>
            /\ (task[i].pc = "scholar_limit" /\ task'[i] # task[i]) =>
                  IF clock - scholar_last_request_time >= scholar_delay_seconds
                  THEN /\ task'[i].pc = "scholar"
                       /\ scholar_last_request_time' = clock
                  ELSE /\ task'[i].pc = "scholar_sleep"
                       /\ task'[i].wake =
                              scholar_last_request_time + scholar_delay_seconds
                       /\ UNCHANGED <<last_request_time, scholar_last_request_time, console>>
            /\ task'[i].pc = "backoff" =>
                  UNCHANGED <<last_request_time, scholar_last_request_time, console>>
      ]_vars

\* C28 witness: the Scholar request of a lookup has been sent without any
\* sleep, less than the primary limiter's delay after the lookup's last
\* primary request.
C28_Witness ==
    \E i \in Tasks :
        /\ task[i].pc = "scholar"
        /\ scholar_last_request_time = clock
        /\ last_request_time > 0
        /\ clock - last_request_time < delay_seconds

\* C30: the backoff of the retry loop is linear and follows exceptions
\* only.  When the k-th attempt ends with an exception and an attempt is
\* left, the lookup sleeps k seconds and then makes the next attempt; when
\* it ends with "paper not found", the next attempt follows with no
\* backoff sleep; after the last attempt there is no backoff sleep.
C30_BackoffState ==
    \A i \in Tasks :
        task[i].pc = "backoff" =>
            /\ task[i].reply = "exception"
            /\ task[i].attempt < task[i].retry_count
            /\ task[i].backoff = task[i].attempt + 1

C30_BackoffStep ==
    \A i \in Tasks :
       LET t == task[i]
           u == task'[i]
           k == t.attempt + 1
       IN  /\ (t.pc = "get_paper" /\ u # t) =>
                 /\ (u.reply = "exception" /\ t.attempt < t.retry_count) =>
                       /\ u.pc = "backoff"
                       /\ u.backoff = k
                       /\ u.wake = clock + OneSecond * k
                 /\ (u.reply = "not found" /\ t.attempt < t.retry_count) =>
                       /\ u.pc = "limit"
                       /\ u.attempt = k
                       /\ u.backoff = 0
                 /\ t.attempt = t.retry_count =>
                       u.pc # "backoff" /\ u.backoff = 0
                 /\ u.reply \in {"exception", "not found", "paper"}
           /\ (t.pc = "backoff" /\ u # t) =>
                 /\ clock >= t.wake
                 /\ u.pc = "limit"
                 /\ u.attempt = k
           /\ (u.pc = "backoff" /\ t.pc # "backoff") => t.pc = "get_paper"

C29_FlagsState ==
    /\ ~use_cache =>
          /\ stats.cache_hits = 0
          /\ \A i \in Tasks :
                /\ task[i].cache_get = "no"
                /\ SetCalls(task[i]) = 0
                /\ task[i].path # "cache"
    /\ ~use_scholar_fallback =>
          /\ stats.scholar_fallback_used = 0
          /\ \A i \in Tasks :
                /\ task[i].scholar_calls = 0
                /\ task[i].pc \notin {"scholar", "fallback_used"}
                /\ task[i].path # "fallback"

C29_FlagsStep ==
    /\ ~use_cache => UNCHANGED <<mem, file>>
    /\ UNCHANGED <<use_cache, use_scholar_fallback>>

C29_DisabledFlags == []C29_FlagsState /\ [][C29_FlagsStep]_vars

\* C29 witness: a client without cache and without fallback has looked up
\* a paper that has a title and a fresh entry in the cache file; every
\* primary attempt was made and failed, and the lookup returned nothing.
C29_Witness ==
    \E i \in Tasks :
        /\ ~use_cache /\ ~use_scholar_fallback
        /\ Done(i) /\ task[i].path = "none"
        /\ task[i].paper.title = "title"
        /\ task[i].primary_calls = task[i].retry_count + 1
        /\ task[i].arxiv_id \in DOMAIN file
        /\ ~Expired(file[task[i].arxiv_id], now)


-----------------------------------------------------------------------------
(* The cache round trip, under SpecStore *)

\* the step is a call of get
GetCalled == task'[1].n = task[1].n + 1 /\ task'[1].op = "get"

\* the dict holds for k a well-formed entry that has not expired
Live(m, k, t) == k \in DOMAIN m /\ ~Malformed(m[k]) /\ ~Expired(m[k], t)

\* C31: a get(id) after a set(id, record) that returned, before the TTL has
\* elapsed and with no set of the same id in between, returns exactly that
\* record and changes neither the in-memory dict nor the file, and a get of
\* an id that has no entry returns None.  Step by step: a get directly
\* after the set returns the record; no call other than a set of the same
\* id, and no passing of time, changes an entry that has not expired; a get
\* of an entry that has not expired returns its data and leaves dict and
\* file as they were; a get of an id without entry returns None and leaves
\* both as they were.
C31_RoundTripStep ==
    /\ GetCalled /\ task[1].op = "set" /\ task[1].outcome = "returned"
          /\ task'[1].key = task[1].key
          /\ Live(mem, task[1].key, now)
       => /\ task'[1].outcome = "returned"
          /\ task'[1].value = task[1].arg
          /\ mem' = mem /\ file' = file
    /\ \A k \in StoreKeys :
          Live(mem, k, now')
              /\ ~(task'[1].n = task[1].n + 1 /\ task'[1].op = "set"
                      /\ task'[1].key = k)
          => k \in DOMAIN mem' /\ mem'[k] = mem[k]
    /\ GetCalled /\ Live(mem, task'[1].key, now)
       => /\ task'[1].outcome = "returned"
          /\ task'[1].value = mem[task'[1].key].data
          /\ mem' = mem /\ file' = file
    /\ GetCalled /\ task'[1].key \notin DOMAIN mem
       => /\ task'[1].outcome = "returned"
          /\ task'[1].value = None
          /\ mem' = mem /\ file' = file

C31_RoundTrip == [][C31_RoundTripStep]_vars

\* C31 witness: a record was set, a day passed, and the get of the same id
\* returned the record with dict and file still holding the entry.
C31_Witness ==
    /\ task[1].op = "get"
    /\ task[1].outcome = "returned"
    /\ task[1].n = 2
    /\ task[1].value \in StoreData
    /\ task[1].value # OldData
    /\ now = LookupDay + 1
    /\ task[1].key \in DOMAIN mem
    /\ mem[task[1].key] = [data |-> task[1].value, cached_at |-> LookupDay]
    /\ file = mem


-----------------------------------------------------------------------------
(* What a lookup without record leaves in the cache, under SpecStats *)

\* the step ends the call i
Ends(i) == task[i].pc # "done" /\ task'[i].pc = "done"

\* C32: a lookup that returns None writes nothing to the cache after its
\* initial cache get.  Every step that changes the in-memory dict or the
\* file is the cache get of a lookup or the step in which a lookup returns
\* a record from a provider; the step in which a lookup returns None
\* leaves both as they were; and the next lookup of the same id misses the
\* cache and sends a request to the primary provider.
C32_NoWriteStep ==
    /\ mem' # mem \/ file' # file
       => \E i \in Tasks :
             \/ task[i].pc = "total_attempts" /\ task'[i] # task[i]
             \/ /\ Ends(i)
                /\ task'[i].path \in {"primary", "fallback"}
                /\ Truthy(task'[i].metrics)
    /\ \A i \in Tasks :
          Ends(i) /\ task'[i].path = "none"
          => /\ task'[i].metrics = None
             /\ mem' = mem /\ file' = file
    /\ \A i \in Tasks, j \in Tasks :
          /\ j = i + 1
          /\ task[i].pc = "done" /\ task[i].path = "none"
          /\ task[j].pc = "total_attempts" /\ task'[j] # task[j]
          /\ CleanArxivId(task[j].arxiv_id) = task[i].arxiv_id
          => /\ task'[j].cache_get = "absent"
             /\ task'[j].pc = "get_paper"
             /\ task'[j].primary_calls = 1
             /\ mem' = mem /\ file' = file

C32_UnenrichedWritesNothing == [][C32_NoWriteStep]_vars

\* C32 witness: the first lookup returned None after the primary and the
\* fallback gave nothing, the cache holds no entry for its id, and the
\* second lookup, of the same id, has its request at the primary.
C32_Witness ==
    /\ Len(task) >= 2
    /\ task[1].pc = "done" /\ task[1].path = "none"
    /\ task[1].primary_calls >= 1 /\ task[1].scholar_calls = 1
    /\ task[1].arxiv_id \notin DOMAIN mem
    /\ file = mem
    /\ task[2].pc = "get_paper"
    /\ task[2].arxiv_id = task[1].arxiv_id
    /\ task[2].primary_calls = 1


-----------------------------------------------------------------------------
(* What fetch_citation changes in a paper, under Spec *)

\* C33: when the lookup of a paper returns a record, from the cache, the
\* primary provider or the fallback, the paper's citation_count and
\* influential_citations are the record's two counts and every other field
\* of the paper (id, title) is as it was handed in; the returned list holds
\* that paper.
C33_OnlyCountsSet ==
    \A i \in Tasks :
        Done(i) /\ Truthy(task[i].metrics)
        => /\ task[i].path \in {"cache", "primary", "fallback"}
           /\ task[i].paper =
                 [batch[i] EXCEPT
                     !.citation_count = task[i].metrics.citation_count,
                     !.influential_citations =
                         task[i].metrics.influential_citations]
           /\ task[i].paper.id = batch[i].id
           /\ task[i].paper.title = batch[i].title
           /\ BatchReturned => out[i] = task[i].paper

\* C33 witness: a batch of two has returned; the first paper has the counts
\* of its cached record, the second those of the primary provider's, and
\* both have the id and title they came with.
C33_Witness ==
    /\ Len(batch) = 2
    /\ BatchReturned
    /\ task[1].path = "cache" /\ task[2].path = "primary"
    /\ out[1] = [Paper(1) EXCEPT !.citation_count = OldData.citation_count,
                                 !.influential_citations =
                                     OldData.influential_citations]
    /\ out[2] = [Paper(2) EXCEPT !.citation_count = 5,
                                 !.influential_citations = 2]


-----------------------------------------------------------------------------
(* The counters of one client, under SpecLookup *)

\* C34: whenever no lookup is in progress, total_attempts is the sum of
\* cache_hits, semantic_scholar_success and semantic_scholar_fail, and
\* scholar_fallback_used is at most semantic_scholar_fail, also after a
\* lookup in which building the record raised once semantic_scholar_success
\* had been incremented.
C34_CounterAccounting ==
    Running = {} =>
        /\ stats.total_attempts =
               stats.cache_hits + stats.semantic_scholar_success
                   + stats.semantic_scholar_fail
        /\ stats.scholar_fallback_used <= stats.semantic_scholar_fail


-----------------------------------------------------------------------------
(* A lookup after reset_stats, under SpecStats *)

\* C35: a lookup made directly after reset_stats that finds a fresh entry in
\* the cache returns the cached record without raising and leaves
\* cache_hits = 1 and total_attempts = 1, as on a new client.
C35_LookupAfterReset ==
    \A i \in Tasks :
        /\ i > 1
        /\ task[i - 1].path = "reset_stats"
        /\ Done(i)
        /\ task[i].cache_get = "hit"
        /\ \A j \in Tasks : j > i => task[j].pc = "queued"
        => /\ task[i].path = "cache"
           /\ Truthy(task[i].metrics)
           /\ "cache_hits" \in DOMAIN stats
           /\ stats.cache_hits = 1
           /\ stats.total_attempts = 1


-----------------------------------------------------------------------------
(* Termination.  SpecAnswering is the batch of Spec, over a cache file in  *)
(* which the first paper may have an entry, with the scheduling of the     *)
(* pool: a worker thread that can take a step takes it, every provider     *)
(* call and every sleep comes back, and the main thread collects the       *)
(* results once they are there.                                            *)

InitAnswering ==
    /\ \E n \in 2..MaxPapers : batch = [i \in 1..n |-> Paper(i)]
    /\ file \in FilesWritten({CleanArxivId(batch[1].id)}, OldDays)
    /\ mem = file
    /\ PoolStarts
    /\ providers = AnyReply

SpecAnswering == InitAnswering /\ [][Next]_vars /\ WF_vars(Next)

\* the lookups that have returned
Completed == {i \in Tasks : Done(i)}

\* C36, the state part: a lookup sends at most retry_count + 1 requests to
\* the primary provider and at most one query to the fallback, and the
\* batch is returned when exactly as many lookups as it has papers have
\* completed.
C36_BoundedCalls ==
    /\ \A i \in Tasks :
          /\ task[i].primary_calls <= task[i].retry_count + 1
          /\ task[i].scholar_calls <= 1
    /\ BatchReturned =>
          /\ Cardinality(Completed) = Len(batch)
          /\ stats.total_attempts <= Len(batch)

\* C36: every lookup terminates, each provider call coming back, after at
\* most retry_count + 1 primary requests and at most one fallback query,
\* and the batch of N papers is returned, after exactly N lookups have
\* completed.
C36_Terminates ==
    /\ []C36_BoundedCalls
    /\ <>[](BatchReturned /\ Cardinality(Completed) = Len(batch))

\* C36 witness: a batch of two has been returned; the first lookup made
\* its two primary requests and its one fallback query and got nothing,
\* the second got the paper at its second request.
C36_Witness ==
    /\ BatchReturned
    /\ Len(batch) = 2
    /\ task[1].primary_calls = 2 /\ task[1].scholar_calls = 1
    /\ task[1].path = "none"
    /\ task[2].primary_calls = 2 /\ task[2].scholar_calls = 0
    /\ task[2].path = "primary"


-----------------------------------------------------------------------------
(* The identifier clean-up applied twice.  SpecNormTwice hands line 104    *)
(* the inputs of SpecNorm and identifiers in which one of the literals of  *)
(* line 104 stands inside another, and hands it its own result again.      *)

\* the literals that line 104 removes
Literals == {str_arxiv_lower, str_arXiv_mixed, str_v1, str_v2, str_v3}

\* the literal y standing after the first character of the literal x
Nested(x, y) == SubSeq(x, 1, 1) \o y \o SubSeq(x, 2, Len(x))

NestedInputs ==
    {Nested(x, y) \o b : x \in Literals, y \in Literals, b \in BareIds}
    \cup {b \o Nested(x, y) : x \in {str_v1, str_v2, str_v3},
                              y \in {str_v1, str_v2, str_v3}, b \in BareIds}

InitNormTwice ==
    /\ normIn \in NormInputs \cup NestedInputs
    /\ normOut = [done |-> FALSE, value |-> <<>>, passes |-> 0, first |-> <<>>]
    /\ batch = <<>>
    /\ task = <<>>
    /\ stats = NewStats
    /\ mem = <<>>
    /\ file = <<>>
    /\ now = 0
    /\ use_cache = TRUE
    /\ use_scholar_fallback = TRUE
    /\ out = <<>>
    /\ run = 1
    /\ hist = NoHist
    /\ providers = AnyReply
    /\ clock = 0
    /\ last_request_time = 0
    /\ scholar_last_request_time = 0
    /\ console = NoConsole
    /\ raised = FALSE

\* line 104 on the caller's identifier
CleanFirst ==
    /\ normOut.passes = 0
    /\ normOut' = [done |-> FALSE, value |-> CleanArxivId(normIn),
                   passes |-> 1, first |-> CleanArxivId(normIn)]
    /\ UNCHANGED <<batch, task, stats, mem, file, now, use_cache,
                   use_scholar_fallback, out, run, hist, normIn, providers,
                   clock, last_request_time, raised,
                   scholar_last_request_time, console>>

\* line 104 on the identifier it produced
CleanSecond ==
    /\ normOut.passes = 1
    /\ normOut' = [normOut EXCEPT !.done = TRUE, !.passes = 2,
                                  !.value = CleanArxivId(normOut.value)]
    /\ UNCHANGED <<batch, task, stats, mem, file, now, use_cache,
                   use_scholar_fallback, out, run, hist, normIn, providers,
                   clock, last_request_time, raised,
                   scholar_last_request_time, console>>

NextNormTwice == CleanFirst \/ CleanSecond

SpecNormTwice == InitNormTwice /\ [][NextNormTwice]_vars

\* C37: the clean-up is idempotent: cleaning a cleaned identifier gives the
\* cleaned identifier again, for every input.
C37_Idempotent ==
    normOut.passes = 2 => normOut.value = normOut.first


-----------------------------------------------------------------------------
(* clear_expired and get_stats, under SpecStore *)

\* the step is a call of clear_expired that returns
ClearReturns == task'[1].n = task[1].n + 1 /\ task'[1].op = "clear_expired"
                    /\ task'[1].outcome = "returned"

\* the step is a call of get_stats that returns
StatsReturns == task'[1].n = task[1].n + 1 /\ task'[1].op = "get_stats"
                    /\ task'[1].outcome = "returned"

\* the entries that get would evict
Stale(m, t) == {k \in DOMAIN m : CacheGetOutcome(m, k, t) = "expired"}

\* C38: a clear_expired that returns has removed from the dict and from the
\* file exactly the entries whose age exceeds the TTL, those that get would
\* evict, and has left every other entry of both as it was, so that none
\* of the entries left has expired; a get_stats that returns has changed
\* neither dict nor file and reports the number of entries, the number of
\* expired ones and their difference, so that total = valid + expired, and
\* expired = 0 when it is called right after clear_expired.
C38_ClearStatsStep ==
    /\ ClearReturns
       => /\ DOMAIN mem' = DOMAIN mem \ Stale(mem, now)
          /\ \A k \in DOMAIN mem' : mem'[k] = mem[k]
          /\ DOMAIN Entries(file') = DOMAIN Entries(file) \ Stale(mem, now)
          /\ \A k \in DOMAIN Entries(file') : file'[k] = file[k]
          /\ Stale(mem', now) = {}
          /\ \A k \in DOMAIN mem' : ~Expired(mem'[k], now)
          /\ \A k \in Stale(mem, now) : now - mem[k].cached_at > cache_days
    /\ StatsReturns
       => /\ mem' = mem /\ file' = file
          /\ task'[1].value.total_entries = Cardinality(DOMAIN mem)
          /\ task'[1].value.expired_entries = Cardinality(Stale(mem, now))
          /\ task'[1].value.total_entries =
                 task'[1].value.valid_entries + task'[1].value.expired_entries
          /\ Stale(mem, now) = {} => task'[1].value.expired_entries = 0

-----------------------------------------------------------------------------
(* The note after a batch.  SpecReport runs batches of no paper up to      *)
(* ReportPapers papers, over a cache file that has a fresh entry for every *)
(* paper or for none, against a primary provider that knows a paper or     *)
(* does not and whose papers have every field set, so that building the   *)
(* result at lines 135-143 does not raise, with the scheduling of         *)
(* SpecPool: a worker between the load and the store of a counter is not   *)
(* preempted.                                                              *)

ReportPapers == 5

\* the primary provider may not know the first paper of the batch and
\* knows every other one
FirstMayBeUnknown(n) ==
    [primary |-> {"not found", "paper"},
     scholar |-> ScholarReplies,
     per_paper |-> [i \in 1..n |-> IF i = 1 THEN {"not found", "paper"}
                                            ELSE {"paper"}]]

\* the paper the provider returned has its counts set
WellFormed(i) ==
    task[i].resp # None => /\ task[i].resp.citationCount # Null
                           /\ task[i].resp.influentialCitationCount # Null

InitReport ==
    /\ \E n \in 0..ReportPapers : batch = [i \in 1..n |-> Paper(i)]
    /\ file \in {[k \in S |-> [data |-> OldData, cached_at |-> BatchDay]] :
                 S \in {{}, {CleanArxivId(batch[i].id) : i \in 1..Len(batch)}}}
    /\ mem = file
    /\ PoolStarts
    /\ providers = FirstMayBeUnknown(Len(batch))

\* list(executor.map(fetch_citation, [])) is the empty list: lines 166-180
\* for a batch without papers
ReturnEmpty ==
    /\ batch = <<>>
    /\ ~console.done
    /\ console' = Reported(out, stats)
    /\ UNCHANGED <<batch, task, stats, mem, file, now, use_cache,
                   use_scholar_fallback, out, run, hist, normIn, normOut,
                   providers, clock, last_request_time, raised,
                   scholar_last_request_time>>

NextReport ==
    \/ \E i \in Tasks : NotPreempted(i) /\ StartWorker(i)
    \/ \E i \in Tasks : NotPreempted(i) /\ AfterTotal(i)
    \/ \E i \in Tasks : NotPreempted(i) /\ CacheHit(i)
    \/ \E i \in Tasks : NotPreempted(i) /\ PrimaryReply(i) /\ WellFormed(i)'
    \/ \E i \in Tasks : NotPreempted(i) /\ PrimarySuccess(i) /\ Done(i)'
    \/ \E i \in Tasks : NotPreempted(i) /\ PrimaryFail(i)
    \/ \E i \in Tasks : NotPreempted(i) /\ ScholarReply(i)
    \/ \E i \in Tasks : NotPreempted(i) /\ FallbackAccepted(i)
    \/ Collect
    \/ ReturnEmpty

SpecReport == InitReport /\ [][NextReport]_vars


AtThreshold ==
    /\ console.done
    /\ Len(batch) = 5
    /\ stats.semantic_scholar_success = 4 /\ stats.total_attempts = 5
    /\ console.printed = <<>>

====
